---- MODULE Spec2Model ----
(***************************************************************************)
(* Answer-extraction engine of LLMThinkBench (src/llmthinkbench/utils).    *)
(*                                                                         *)
(* A response is a sequence of lexemes.  Each lexeme stands for the fixed  *)
(* piece of text written in its definition below; the text of a response   *)
(* is the concatenation of its lexemes.  Every regular expression of the   *)
(* source is translated to an operator over lexeme sequences that gives    *)
(* what the expression gives on that text.  An expression that needs a     *)
(* character that no lexeme of the texts handed to its function contains   *)
(* cannot match and is recorded as a comment in the operator of the        *)
(* function it belongs to.                                                 *)
(***************************************************************************)
EXTENDS Integers, Sequences, FiniteSets, TLC

(***************************************************************************)
(* Lexemes                                                                 *)
(***************************************************************************)
tBOX  == "\\boxed{"
tRB   == "}"
tANS  == " the answer is "
tBOLD == "**"
tINF  == "inf"
tNEG  == "-"
tDOT  == "."
tEQ   == "="
tDOL  == "$"
\* the backquote character (written out: the character cannot stand in a string)
tTICK == "BACKQUOTE"
tE    == "e"
\* pieces of lexemes that a capture group or a substitution can leave behind
tIS   == "is "
tLB   == "{"
tANSL == "the answer is "
tANSR == " the answer is"
tANSB == "the answer is"
tISS  == "is"
\* the signs of a written calculation
tCM     == ","
tHAT    == "^"
tDIV    == "/"
tX      == "x"
\* the multiplication sign U+00D7 (written out: the module is ASCII)
tMUL    == "MULTIPLICATIONSIGN"
tTIMESW == "times"
tLTIMES == "\\times"

Digits == {"2", "3", "5"}

\* beside the digits of the responses, "1" and "0": the digits of the literal 10
DigitVal(t) ==
  IF t = "0" THEN 0 ELSE IF t = "1" THEN 1
  ELSE IF t = "2" THEN 2 ELSE IF t = "3" THEN 3 ELSE 5

IsDigit(t) == t \in Digits \cup {"1", "0"}

\* number of characters of a lexeme (len() of the text it stands for)
CharLen(t) ==
  IF t = tBOX THEN 7
  ELSE IF t = tANS THEN 15
  ELSE IF t \in {tANSL, tANSR} THEN 14
  ELSE IF t = tANSB THEN 13
  ELSE IF t \in {tINF, tIS} THEN 3
  ELSE IF t \in {tBOLD, tISS} THEN 2
  ELSE 1

RECURSIVE TextLen(_)
TextLen(s) == IF s = <<>> THEN 0 ELSE CharLen(Head(s)) + TextLen(Tail(s))

Slice(s, i, j) == IF j < i THEN <<>> ELSE SubSeq(s, i, j)

\* the indexes of s from i on, ascending, that hold lexeme t
RECURSIVE IndexesFrom(_, _, _)
IndexesFrom(s, i, t) ==
  IF i > Len(s) THEN <<>>
  ELSE IF s[i] = t THEN <<i>> \o IndexesFrom(s, i + 1, t)
  ELSE IndexesFrom(s, i + 1, t)

Last(q) == q[Len(q)]

(***************************************************************************)
(* str.strip(): white space exists only at the two ends of tANS.           *)
(***************************************************************************)
LStrip(s) ==
  IF s = <<>> THEN s
  ELSE IF s[1] = tANS THEN <<tANSL>> \o Tail(s)
  ELSE IF s[1] = tANSR THEN <<tANSB>> \o Tail(s)
  ELSE s

RStrip(s) ==
  IF s = <<>> THEN s
  ELSE IF Last(s) = tANS THEN Slice(s, 1, Len(s) - 1) \o <<tANSR>>
  ELSE IF Last(s) = tANSL THEN Slice(s, 1, Len(s) - 1) \o <<tANSB>>
  ELSE IF Last(s) = tIS THEN Slice(s, 1, Len(s) - 1) \o <<tISS>>
  ELSE s

Strip(s) == RStrip(LStrip(s))

(***************************************************************************)
(* Python values: None, int, float, str.  A finite number is m / 10^e (e   *)
(* may be negative); an infinite float has s = <<tINF>> and m its sign.    *)
(***************************************************************************)
NoneV == [k |-> "none", m |-> 0, e |-> 0, s |-> <<>>]
IntV(n) == [k |-> "int", m |-> n, e |-> 0, s |-> <<>>]
FloatV(m, e) == [k |-> "float", m |-> m, e |-> e, s |-> <<>>]
InfV(sign) == [k |-> "float", m |-> sign, e |-> 0, s |-> <<tINF>>]
StrV(s) == [k |-> "str", m |-> 0, e |-> 0, s |-> s]

IsNum(v) == v.k \in {"int", "float"}

IsInf(v) == v.k = "float" /\ v.s = <<tINF>>

RECURSIVE Pow10(_)
Pow10(n) == IF n <= 0 THEN 1 ELSE 10 * Pow10(n - 1)

RECURSIVE Canon(_, _)
\* the pair <<m, e>> of m / 10^e with no trailing zero in m
Canon(m, e) ==
  IF m = 0 THEN <<0, 0>>
  ELSE IF m % 10 = 0 THEN Canon(m \div 10, e - 1)
  ELSE <<m, e>>

\* Python's == between two numbers
NumEq(a, b) ==
  /\ a.s = b.s
  /\ IF a.s = <<tINF>> THEN a.m = b.m ELSE Canon(a.m, a.e) = Canon(b.m, b.e)

Neg(v) == [v EXCEPT !.m = -v.m]

RECURSIVE NumDigits(_)
NumDigits(n) == IF n < 10 THEN 1 ELSE 1 + NumDigits(n \div 10)

Abs(n) == IF n < 0 THEN -n ELSE n

\* the int that int(x) gives for a finite float x, as a number m / 10^e
Trunc(v) ==
  IF v.e <= 0 THEN [v EXCEPT !.k = "int"]
  ELSE IF v.e >= NumDigits(Abs(v.m)) THEN IntV(0)
  ELSE IF v.m >= 0 THEN IntV(v.m \div Pow10(v.e))
  ELSE IntV(-((-v.m) \div Pow10(v.e)))

(***************************************************************************)
(* float(x) and the numeric literals of the regular expressions            *)
(***************************************************************************)
RECURSIVE DigitsEnd(_, _)
\* \d* from index i: the first index after the run of digits
DigitsEnd(s, i) ==
  IF i <= Len(s) /\ IsDigit(s[i]) THEN DigitsEnd(s, i + 1) ELSE i

SignEnd(s, i) == IF i <= Len(s) /\ s[i] = tNEG THEN i + 1 ELSE i

\* [+-]?\d+ from index i: the first index after the match, 0 if none
IntEnd(s, i) ==
  LET j == SignEnd(s, i)
      k == DigitsEnd(s, j)
  IN IF k = j THEN 0 ELSE k

\* [+-]?\d+(?:\.\d+)? from index i: the first index after the match, 0 if none
NumEnd(s, i) ==
  LET k == IntEnd(s, i)
  IN IF k = 0 THEN 0
     ELSE IF k + 1 <= Len(s) /\ s[k] = tDOT /\ IsDigit(s[k + 1])
          THEN DigitsEnd(s, k + 1)
          ELSE k

\* (?:[eE][+-]?\d+)? from index k: the first index after the match (k if it is empty)
ExpEnd(s, k) ==
  IF k <= Len(s) /\ s[k] = tE
  THEN LET j == SignEnd(s, k + 1)
           d == DigitsEnd(s, j)
       IN IF d > j THEN d ELSE k
  ELSE k

\* [+-]?\d+(?:\.\d+)?(?:[eE][+-]?\d+)? from index i, 0 if none
SciEnd(s, i) ==
  LET k == NumEnd(s, i) IN IF k = 0 THEN 0 ELSE ExpEnd(s, k)

RECURSIVE DigitsValue(_, _)
\* the digits of s read as one integer; acc holds the digits read so far
DigitsValue(s, acc) ==
  IF s = <<>> THEN acc
  ELSE IF IsDigit(Head(s)) THEN DigitsValue(Tail(s), 10 * acc + DigitVal(Head(s)))
  ELSE DigitsValue(Tail(s), acc)

\* the first two digits of n >= 1 (n * 10 when n has one digit)
LeadTwo(n) == IF n < 10 THEN n * 10 ELSE n \div Pow10(NumDigits(n) - 2)

\* largest and smallest decimal exponents of a binary64 value
FloatMaxExp == 308
FloatMinExp == -324
\* two leading digits of half the smallest subnormal, 2.47e-324
FloatMinLead == 25

\* float(x)'s grammar: sign, digits with an optional point, exponent; or inf
FloatParses(x) ==
  LET j  == SignEnd(x, 1)
      a  == DigitsEnd(x, j)
      b  == IF a <= Len(x) /\ x[a] = tDOT THEN DigitsEnd(x, a + 1) ELSE a
      nd == (a - j) + (IF b > a THEN b - a - 1 ELSE 0)
      c  == IF b <= Len(x) /\ x[b] = tE
            THEN LET q == SignEnd(x, b + 1)
                     d == DigitsEnd(x, q)
                 IN IF d > q THEN d ELSE 0
            ELSE b
  IN \/ Slice(x, j, Len(x)) = <<tINF>>
     \/ nd > 0 /\ c = Len(x) + 1

\* float(x) for an x that FloatParses
PyFloat(x) ==
  LET neg  == x[1] = tNEG
      sg   == IF neg THEN -1 ELSE 1
      es   == IndexesFrom(x, 1, tE)
      mant == IF es = <<>> THEN x ELSE Slice(x, 1, es[1] - 1)
      ex   == IF es = <<>> THEN <<>> ELSE Slice(x, es[1] + 1, Len(x))
      dots == IndexesFrom(mant, 1, tDOT)
      frac == IF dots = <<>> THEN 0 ELSE Len(mant) - dots[1]
      mag  == DigitsValue(mant, 0)
      xv   == IF ex # <<>> /\ ex[1] = tNEG THEN -DigitsValue(ex, 0) ELSE DigitsValue(ex, 0)
      p    == NumDigits(mag) - 1 - frac + xv
  IN IF Slice(x, SignEnd(x, 1), Len(x)) = <<tINF>> THEN InfV(sg)
     ELSE IF mag = 0 THEN FloatV(0, 0)
     ELSE IF p >= FloatMaxExp THEN InfV(sg)
     ELSE IF p < FloatMinExp \/ (p = FloatMinExp /\ LeadTwo(mag) < FloatMinLead)
          THEN FloatV(0, 0)
     ELSE LET c == Canon(sg * mag, frac - xv) IN FloatV(c[1], c[2])

\* every int of so many digits is below 2^53 and a binary64 value
ExactDigits == 15

\* an int of more than ExactDigits digits: m is its sign, s its digits
BigV(sign, digits) == [k |-> "int", m |-> sign, e |-> 0, s |-> digits]

DigitText(n) ==
  CASE n = 0 -> "0" [] n = 1 -> "1" [] n = 2 -> "2" [] n = 3 -> "3" [] n = 4 -> "4"
    [] n = 5 -> "5" [] n = 6 -> "6" [] n = 7 -> "7" [] n = 8 -> "8" [] n = 9 -> "9"

\* int(float(d)) of the digits d of an int from 2^53 to 2^54, where the
\* binary64 values are the even numbers: an odd number goes to the
\* neighbour that is a multiple of 4.  (The literals of more than ExactDigits
\* digits in the texts have 17 digits and begin with "10".)
Binary64Digits(d) ==
  LET n    == Len(d)
      last == DigitVal(d[n])
      two  == 10 * DigitVal(d[n - 1]) + last
  IN IF last % 2 = 0 THEN d
     ELSE IF (two + 1) % 4 = 0 THEN Slice(d, 1, n - 1) \o <<DigitText(last + 1)>>
     ELSE Slice(d, 1, n - 1) \o <<DigitText(last - 1)>>

\* int(float(x)) of the literal x of an int
IntOfFloat(x) ==
  IF Len(x) - SignEnd(x, 1) < ExactDigits
  THEN IntV(IF x[1] = tNEG THEN -DigitsValue(x, 0) ELSE DigitsValue(x, 0))
  ELSE BigV(IF x[1] = tNEG THEN -1 ELSE 1, Binary64Digits(Slice(x, SignEnd(x, 1), Len(x))))

\* int(float(x)) if '.' not in x and 'e' not in x.lower() else float(x)
PyNumber(x) ==
  IF IndexesFrom(x, 1, tDOT) = <<>> /\ IndexesFrom(x, 1, tE) = <<>>
  THEN IntOfFloat(x)
  ELSE PyFloat(x)

RECURSIVE FirstSciAt(_, _)
\* re.search of the literal with exponent: start of the leftmost match from i on, 0 if none
FirstSciAt(s, i) ==
  IF i > Len(s) THEN 0
  ELSE IF SciEnd(s, i) # 0 THEN i
  ELSE FirstSciAt(s, i + 1)

RECURSIVE FirstNumAt(_, _)
\* the same for the literal without exponent
FirstNumAt(s, i) ==
  IF i > Len(s) THEN 0
  ELSE IF NumEnd(s, i) # 0 THEN i
  ELSE FirstNumAt(s, i + 1)

RECURSIVE TailNumAt(_, _)
\* (literal)$: leftmost i at which the literal matches and ends the text, 0 if none
TailNumAt(s, i) ==
  IF i > Len(s) THEN 0
  ELSE IF NumEnd(s, i) = Len(s) + 1 THEN i
  ELSE TailNumAt(s, i + 1)

RECURSIVE EqSciTailAt(_, _)
\* =\s*(literal with exponent)\s*$: index of the leftmost such "=", 0 if none
EqSciTailAt(s, i) ==
  IF i > Len(s) THEN 0
  ELSE IF s[i] = tEQ /\ SciEnd(s, i + 1) = Len(s) + 1 THEN i
  ELSE EqSciTailAt(s, i + 1)

(***************************************************************************)
(* absolute_difference_parsing.py: coercion, validity, echo filter         *)
(***************************************************************************)
RECURSIVE SubLatexMarkdown(_)
\* re.sub(r'\\[a-zA-Z]+', '') leaves "{" of tBOX and takes "\times" with the
\* letters that follow it; re.sub(r'[*_~`]', '') drops tBOLD, tTICK
SubLatexMarkdown(s) ==
  IF s = <<>> THEN <<>>
  ELSE IF Head(s) = tBOX THEN <<tLB>> \o SubLatexMarkdown(Tail(s))
  ELSE IF Head(s) = tLTIMES
       THEN LET k == CHOOSE j \in 2..Len(s) + 1 :
                       /\ j = Len(s) + 1 \/ s[j] \notin {tE, tX, tTIMESW, tINF}
                       /\ \A i \in 2..j - 1 : s[i] \in {tE, tX, tTIMESW, tINF}
            IN SubLatexMarkdown(Slice(s, k, Len(s)))
  ELSE IF Head(s) \in {tBOLD, tTICK} THEN SubLatexMarkdown(Tail(s))
  ELSE <<Head(s)>> \o SubLatexMarkdown(Tail(s))

RECURSIVE SubComma(_, _)
\* re.sub(r'(\d),(\d)', r'\1\2'): a match takes both digits, so the next
\* comma after the second digit stays
SubComma(s, i) ==
  IF i > Len(s) THEN <<>>
  ELSE IF i + 2 <= Len(s) /\ IsDigit(s[i]) /\ s[i + 1] = tCM /\ IsDigit(s[i + 2])
       THEN <<s[i], s[i + 2]>> \o SubComma(s, i + 3)
  ELSE <<s[i]>> \o SubComma(s, i + 1)

RECURSIVE SubExponent(_, _)
\* re.sub(r'(\d+)\^{(\d+)}', r'\1e\2')
SubExponent(s, i) ==
  IF i > Len(s) THEN <<>>
  ELSE LET Closed(d, e) ==
             IF e > d + 2 /\ e <= Len(s) /\ s[e] = tRB
             THEN Slice(s, i, d - 1) \o <<tE>> \o Slice(s, d + 2, e - 1)
                    \o SubExponent(s, e + 1)
             ELSE <<s[i]>> \o SubExponent(s, i + 1)
           Opened(d) ==
             Closed(d, IF d > i /\ d + 1 <= Len(s) /\ s[d] = tHAT /\ s[d + 1] = tLB
                       THEN DigitsEnd(s, d + 2) ELSE 0)
       IN Opened(DigitsEnd(s, i))

RECURSIVE SciMatchAt(_, _)
\* ([+-]?\d+(?:\.\d+)?)\s*[x×]\s*10\^(\d+): <<start, index of the sign>> of
\* the leftmost match, <<>> if none
SciMatchAt(s, i) ==
  IF i > Len(s) THEN <<>>
  ELSE LET Base(k) ==
             IF k # 0 /\ k + 4 <= Len(s) /\ s[k] \in {tX, tMUL} /\ s[k + 1] = "1"
                  /\ s[k + 2] = "0" /\ s[k + 3] = tHAT /\ IsDigit(s[k + 4])
             THEN <<i, k>>
             ELSE SciMatchAt(s, i + 1)
       IN Base(NumEnd(s, i))

RECURSIVE CalcMatchAt(_, _, _)
\* (literal)\s*[op]\s*(literal)\s*=\s*(literal): <<start, end>> of the third
\* group of the leftmost match, <<>> if none
CalcMatchAt(s, i, op) ==
  IF i > Len(s) THEN <<>>
  ELSE LET After(a, t) == IF a # 0 /\ a <= Len(s) /\ s[a] = t THEN NumEnd(s, a + 1) ELSE 0
           Third(b, c) == IF c # 0 THEN <<b + 1, c - 1>> ELSE CalcMatchAt(s, i + 1, op)
           Second(b) == Third(b, After(b, tEQ))
       IN Second(After(NumEnd(s, i), op))

\* clean_and_convert_to_number with the sign op in calc_match.  times_match
\* never matches: the first substitution has taken every "\times".  The blank
\* after "-" and the division sign U+00F7 match no lexeme.  base * 10 ** exponent
\* is taken exactly (the float product can differ from it in the last place),
\* and 10 ** exponent is below the floats' range for the exponents of the runs
CleanAndConvert(text, op) ==
  IF text = <<>> THEN NoneV
  ELSE LET Number(t, nm) ==
             IF nm # 0 THEN PyNumber(Slice(t, nm, SciEnd(t, nm) - 1)) ELSE StrV(t)
           LastEqual(t, le) ==
             IF le # 0 THEN PyNumber(Slice(t, le + 1, Len(t)))
             ELSE Number(t, FirstSciAt(t, 1))
           Calc(t, cm) ==
             IF cm # <<>> THEN PyNumber(Slice(t, cm[1], cm[2]))
             ELSE LastEqual(t, EqSciTailAt(t, 1))
           Product(base, exponent) ==
             IF IsInf(base) THEN base
             ELSE FloatV(Canon(base.m, base.e - exponent)[1],
                         Canon(base.m, base.e - exponent)[2])
           Sci(t, sm) ==
             IF sm # <<>>
             THEN Product(PyFloat(Slice(t, sm[1], sm[2] - 1)),
                          DigitsValue(Slice(t, sm[2] + 4, DigitsEnd(t, sm[2] + 4) - 1), 0))
             ELSE Calc(t, CalcMatchAt(t, 1, op))
           Clean(t) == Sci(t, SciMatchAt(t, 1))
       IN Clean(SubExponent(SubComma(SubLatexMarkdown(text), 1), 1))

\* calc_match looks for "X / Y = Z"
clean_and_convert_to_number(text) == CleanAndConvert(text, tDIV)

\* multiplication_parsing.py: calc_match looks for "X × Y = Z" ("*" is gone
\* with the markdown)
mul_clean_and_convert_to_number(text) == CleanAndConvert(text, tMUL)

is_valid_number(value) ==
  IF value.k = "none" THEN FALSE
  ELSE IF IsNum(value) THEN TRUE
  ELSE FloatParses(value.s)

RECURSIVE SumSeq(_)
SumSeq(q) == IF q = <<>> THEN 0 ELSE Head(q) + SumSeq(Tail(q))

\* "True", "False", or the exception int(float('inf')) raises
is_input_number(number, input_numbers) ==
  IF input_numbers = <<>> THEN "False"
  ELSE IF number.k = "str" /\ ~FloatParses(number.s) THEN "False"
  ELSE IF number.k = "str" /\ IsInf(PyFloat(number.s)) THEN "OverflowError"
  ELSE LET Echo(n) ==
             IF \E i \in 1..Len(input_numbers) : NumEq(n, IntV(input_numbers[i]))
             THEN "True"
             ELSE IF Len(input_numbers) > 1 /\ NumEq(n, IntV(SumSeq(input_numbers)))
             THEN "True"
             ELSE IF \E i \in 1..Len(input_numbers) : NumEq(Neg(n), IntV(input_numbers[i]))
             THEN "True"
             ELSE "False"
       IN Echo(IF number.k = "str" THEN Trunc(PyFloat(number.s)) ELSE number)

(***************************************************************************)
(* What an extractor hands to the cascade: None, a text, a number, the     *)
(* text str(v) of a float v, or an exception raised on the way.            *)
(***************************************************************************)
NoCand == [k |-> "none", s |-> <<>>, v |-> NoneV]
TextCand(s) == [k |-> "text", s |-> s, v |-> NoneV]
NumCand(v) == [k |-> "num", s |-> <<>>, v |-> v]
ReprCand(v) == [k |-> "repr", s |-> <<>>, v |-> v]
RaiseCand == [k |-> "raise", s |-> <<>>, v |-> NoneV]

RECURSIVE NextAt(_, _, _)
\* first index >= i of s that holds a lexeme of the set ts, Len(s) + 1 if none
NextAt(s, i, ts) ==
  IF i > Len(s) THEN i
  ELSE IF s[i] \in ts THEN i
  ELSE NextAt(s, i + 1, ts)

RECURSIVE PairSpans(_, _, _)
\* re.findall(d ([^d]+) d): the non-overlapping contents between two delimiters d
PairSpans(s, i, d) ==
  LET a == NextAt(s, i, {d})
      b == NextAt(s, a + 1, {d})
  IN IF b > Len(s) THEN <<>>
     ELSE IF b = a + 1 THEN PairSpans(s, b, d)
     ELSE <<Slice(s, a + 1, b - 1)>> \o PairSpans(s, b + 1, d)

(***************************************************************************)
(* extract_from_boxed_formats                                              *)
(***************************************************************************)
Braces == {tBOX, tRB, tLB}

\* \\boxed\{([^{}]*)\} at index i: the index of the closing brace, 0 if no match
BoxClose(s, i) ==
  LET j == NextAt(s, i + 1, Braces)
  IN IF i <= Len(s) /\ s[i] = tBOX /\ j <= Len(s) /\ s[j] = tRB THEN j ELSE 0

RECURSIVE BoxedFrom(_, _)
BoxedFrom(s, i) ==
  IF i > Len(s) THEN <<>>
  ELSE IF BoxClose(s, i) # 0
       THEN <<Slice(s, i + 1, BoxClose(s, i) - 1)>> \o BoxedFrom(s, BoxClose(s, i) + 1)
       ELSE BoxedFrom(s, i + 1)

standard_boxed(s) == BoxedFrom(s, 1)

\* \\\s*boxed\{([^{}]*)\}
malformed_boxed1(s) == BoxedFrom(s, 1)

\* \\boxed\{[-+]?[^{}]*\} and, inside each match, \\boxed\{([-+]?[^{}]*)\}
special_boxed_content(s) == BoxedFrom(s, 1)

\* boxed\{([^{}]*)\}
plain_boxed(s) == BoxedFrom(s, 1)

RECURSIVE DollarBoxedFrom(_, _)
\* \$\\boxed\{([^{}]+)\}\$
DollarBoxedFrom(s, i) ==
  IF i > Len(s) THEN <<>>
  ELSE LET j == BoxClose(s, i + 1)
       IN IF s[i] = tDOL /\ j > i + 2 /\ j + 1 <= Len(s) /\ s[j + 1] = tDOL
          THEN <<Slice(s, i + 2, j - 1)>> \o DollarBoxedFrom(s, j + 2)
          ELSE DollarBoxedFrom(s, i + 1)

boxed_with_dollar(s) == DollarBoxedFrom(s, 1)

RECURSIVE NegBoxedFrom(_, _)
\* \\boxed\{-\s*([^{}]*)\}
NegBoxedFrom(s, i) ==
  IF i > Len(s) THEN <<>>
  ELSE LET j == BoxClose(s, i)
       IN IF j # 0 /\ s[i + 1] = tNEG
          THEN <<LStrip(Slice(s, i + 2, j - 1))>> \o NegBoxedFrom(s, j + 1)
          ELSE NegBoxedFrom(s, i + 1)

neg_boxed(s) == NegBoxedFrom(s, 1)

\* value = "-" + match, for every match of neg_boxed
NegValues(q) == [i \in 1..Len(q) |-> <<tNEG>> \o q[i]]

\* the other expressions of the function need "[", "(", a blank after the
\* backslash, "\box{", "{{", "\text", "\frac", "answer=" or "x10^" and match no lexeme
all_matches(s) ==
  standard_boxed(s) \o malformed_boxed1(s) \o special_boxed_content(s)
    \o plain_boxed(s) \o boxed_with_dollar(s) \o NegValues(neg_boxed(s))

\* the boxed forms overlooked
NoBoxedFormat(s) == <<NoCand, FALSE>>

\* <<candidate, instruction_followed>>
extract_from_boxed_formats(s) ==
  LET am == all_matches(s)
  IN IF am # <<>> THEN <<TextCand(Strip(Last(am))), TRUE>> ELSE <<NoCand, FALSE>>

(***************************************************************************)
(* extract_from_markdown_formatting, extract_from_explicit_statements,     *)
(* extract_from_latex_math, extract_from_code_blocks                       *)
(***************************************************************************)
\* \*\*([^*]+)\*\*; the italic and underscore expressions match no lexeme
bold_asterisks(s) == PairSpans(s, 1, tBOLD)

extract_from_markdown_formatting(s) ==
  LET am == bold_asterisks(s)
  IN IF am # <<>> THEN TextCand(Strip(Last(am))) ELSE NoCand

RECURSIVE ExplicitFrom(_, _)
\* (?:^|\n|\s)(?:answer|the answer is|...)[:\s]+([^\n\.]+): after "the answer is"
\* the capture runs to the next "."; when nothing stands there the expression
\* matches at " answer " inside the lexeme and captures "is "
ExplicitFrom(s, i) ==
  LET a == NextAt(s, i, {tANS})
      d == NextAt(s, a + 1, {tDOT})
  IN IF a > Len(s) THEN <<>>
     ELSE IF d > a + 1 THEN <<Slice(s, a + 1, d - 1)>> \o ExplicitFrom(s, d)
     ELSE <<(<<tIS>>)>> \o ExplicitFrom(s, a + 1)

\* the first pattern matches whenever tANS occurs; the others need words no lexeme has
extract_from_explicit_statements(s) ==
  LET ms == ExplicitFrom(s, 1)
  IN IF ms # <<>> THEN <<TextCand(Strip(Last(ms))), FALSE>> ELSE <<NoCand, FALSE>>

\* \$([^$]+)\$
extract_from_latex_math(s) ==
  LET ms == PairSpans(s, 1, tDOL)
  IN IF ms # <<>> THEN TextCand(Strip(Last(ms))) ELSE NoCand

WordEnd == Digits \cup {tINF, tE, tANS}

RECURSIVE VarAssignAt(_, _)
\* \b\w+\s*=\s*([+-]?\d+(?:\.\d+)?)(?!\s*\[): index of the leftmost such "=", 0 if none
VarAssignAt(c, i) ==
  IF i > Len(c) THEN 0
  ELSE IF c[i] = tEQ /\ i > 1 /\ c[i - 1] \in WordEnd /\ NumEnd(c, i + 1) # 0 THEN i
  ELSE VarAssignAt(c, i + 1)

RECURSIVE CodeFrom(_, _)
\* for match in matches: the first block with an assignment gives the answer
CodeFrom(blocks, i) ==
  IF i > Len(blocks) THEN NoCand
  ELSE LET c == blocks[i]
           q == VarAssignAt(c, 1)
       IN IF q # 0 THEN TextCand(Slice(c, q + 1, NumEnd(c, q + 1) - 1))
          ELSE CodeFrom(blocks, i + 1)

\* `([^`]+)`; the fenced, output, print and return expressions match no lexeme
extract_from_code_blocks(s) == CodeFrom(PairSpans(s, 1, tTICK), 1)

(***************************************************************************)
(* extract_from_last_line, extract_from_scientific_notation,               *)
(* extract_from_array_format, extract_from_calculation_steps,              *)
(* extract_plain_number                                                    *)
(***************************************************************************)
RECURSIVE TailNumDotAt(_, _)
\* ([+-]?\d+(?:\.\d+)?)\.?$: start of the leftmost match, 0 if none
TailNumDotAt(s, i) ==
  IF i > Len(s) THEN 0
  ELSE LET k == NumEnd(s, i)
       IN IF k = Len(s) + 1 \/ (k = Len(s) /\ s[k] = tDOT) THEN i
          ELSE TailNumDotAt(s, i + 1)

RECURSIVE SplitDot(_, _)
\* re.split(r'[.!?]', text)
SplitDot(s, i) ==
  LET d == NextAt(s, i, {tDOT})
  IN IF d > Len(s) THEN <<Slice(s, i, Len(s))>>
     ELSE <<Slice(s, i, d - 1)>> \o SplitDot(s, d + 1)

RECURSIVE SentenceFrom(_, _)
\* for i in range(min(3, len(sentences))): a number at the end of sentences[-(i+1)]
SentenceFrom(sentences, i) ==
  IF i >= Len(sentences) \/ i >= 3 THEN NoCand
  ELSE LET sentence == Strip(sentences[Len(sentences) - i])
           q == TailNumAt(sentence, 1)
       IN IF q # 0 THEN TextCand(Slice(sentence, q, Len(sentence)))
          ELSE SentenceFrom(sentences, i + 1)

\* the text has one line; the "difference" and quoted expressions match no lexeme
extract_from_last_line(s) ==
  LET line == Strip(s)
      q    == TailNumDotAt(line, 1)
  IN IF q # 0 THEN TextCand(Slice(line, q, NumEnd(line, q) - 1))
     ELSE SentenceFrom(SplitDot(s, 1), 0)

RECURSIVE FirstExpAt(_, _)
\* ([+-]?\d+(?:\.\d+)?[eE][+-]?\d+): start of the leftmost match, 0 if none
FirstExpAt(s, i) ==
  IF i > Len(s) THEN 0
  ELSE IF NumEnd(s, i) # 0 /\ ExpEnd(s, NumEnd(s, i)) > NumEnd(s, i) THEN i
  ELSE FirstExpAt(s, i + 1)

\* str(float(match)) of the first match; the other notations match no lexeme
extract_from_scientific_notation(s) ==
  LET q == FirstExpAt(s, 1)
  IN IF q # 0 THEN ReprCand(PyFloat(Slice(s, q, SciEnd(s, q) - 1))) ELSE NoCand

RECURSIVE CurlyFrom(_, _)
\* \{\s*(literal with exponent)\s*\}: "{" stands only at the end of tBOX
CurlyFrom(s, i) ==
  IF i > Len(s) THEN <<>>
  ELSE LET k == SciEnd(s, i + 1)
       IN IF s[i] = tBOX /\ k # 0 /\ k <= Len(s) /\ s[k] = tRB
          THEN <<Slice(s, i + 1, k - 1)>> \o CurlyFrom(s, k + 1)
          ELSE CurlyFrom(s, i + 1)

extract_from_array_format(s) ==
  LET ms == CurlyFrom(s, 1)
  IN IF ms # <<>> THEN TextCand(Last(ms)) ELSE NoCand

RECURSIVE SubtractionStepsFrom(_, _)
\* (literal)\s*-\s*(literal)\s*=\s*(literal): the third groups of the matches
SubtractionStepsFrom(s, i) ==
  IF i > Len(s) THEN <<>>
  ELSE LET After(a, t) == IF a # 0 /\ a <= Len(s) /\ s[a] = t THEN NumEnd(s, a + 1) ELSE 0
           Third(b, c) ==
             IF c # 0 THEN <<Slice(s, b + 1, c - 1)>> \o SubtractionStepsFrom(s, c)
             ELSE SubtractionStepsFrom(s, i + 1)
           Second(b) == Third(b, After(b, tEQ))
       IN Second(After(NumEnd(s, i), tNEG))

RECURSIVE FinalStepFrom(_, _)
\* (?:final|result|answer|...)[:\s]*(?:[^=]*=\s*)?(literal with exponent):
\* after "answer" stands "is", so the literal must follow the first "=" after it
FinalStepFrom(s, i) ==
  LET a == NextAt(s, i, {tANS})
      q == NextAt(s, a + 1, {tEQ})
  IN IF a > Len(s) \/ q > Len(s) THEN <<>>
     ELSE IF SciEnd(s, q + 1) # 0 THEN Slice(s, q + 1, SciEnd(s, q + 1) - 1)
     ELSE FinalStepFrom(s, a + 1)

\* the "abs(", "|", "absolute difference" and step-word expressions match no lexeme
extract_from_calculation_steps(s, input_numbers) ==
  LET Echoed(x) == IF x = <<>> THEN "True" ELSE is_input_number(StrV(x), input_numbers)
      Pick(x, r, rest) ==
        IF r = "OverflowError" THEN RaiseCand
        ELSE IF r = "False" THEN TextCand(x)
        ELSE rest
      Final(fs) == Pick(fs, Echoed(fs), NoCand)
      Steps(steps) ==
        Pick(IF steps = <<>> THEN <<>> ELSE Last(steps),
             Echoed(IF steps = <<>> THEN <<>> ELSE Last(steps)),
             Final(FinalStepFrom(s, 1)))
  IN Steps(SubtractionStepsFrom(s, 1))

RECURSIVE IsEqNumAt(_, _)
\* (?:is|=)\s*(literal): "is" ends tANS
IsEqNumAt(s, i) ==
  IF i > Len(s) THEN 0
  ELSE IF s[i] \in {tEQ, tANS} /\ NumEnd(s, i + 1) # 0 THEN i
  ELSE IsEqNumAt(s, i + 1)

ShortLen == 10

\* the bracket, parenthesis and "difference" expressions match no lexeme
extract_plain_number(s) ==
  LET st == Strip(s)
      q  == TailNumAt(st, 1)
      r  == IsEqNumAt(s, 1)
  IN IF TextLen(st) < ShortLen /\ st # <<>> /\ NumEnd(st, 1) = Len(st) + 1
     THEN NumCand(PyNumber(st))
     ELSE IF q # 0 THEN NumCand(PyNumber(Slice(st, q, Len(st))))
     ELSE IF r # 0 THEN NumCand(PyNumber(Slice(s, r + 1, NumEnd(s, r + 1) - 1)))
     ELSE NoCand

(***************************************************************************)
(* extract_input_numbers_from_prompt.  A prompt is a sequence of the       *)
(* lexemes below and of digits and "-"; the empty prompt stands for None.  *)
(***************************************************************************)
tLSQ   == "["
tRSQ   == "]"
tCOMMA == ", "
tFIND  == "Find the answer: "

RECURSIVE ListEnd(_, _, _)
\* [-+]?\d+(?:,\s*[-+]?\d+)*\] from index i: the numbers, <<>> if no match
ListEnd(p, i, acc) ==
  LET k == IntEnd(p, i)
      n == IF k = 0 THEN <<>> ELSE acc \o <<PyNumber(Slice(p, i, k - 1)).m>>
  IN IF k = 0 \/ k > Len(p) THEN <<>>
     ELSE IF p[k] = tRSQ THEN n
     ELSE IF p[k] = tCOMMA THEN ListEnd(p, k + 1, n)
     ELSE <<>>

RECURSIVE ListFrom(_, _)
\* re.search: the leftmost list
ListFrom(p, i) ==
  IF i > Len(p) THEN <<>>
  ELSE IF p[i] = tLSQ /\ ListEnd(p, i + 1, <<>>) # <<>> THEN ListEnd(p, i + 1, <<>>)
  ELSE ListFrom(p, i + 1)

extract_input_numbers_from_prompt(p) == ListFrom(p, 1)

(***************************************************************************)
(* parse_absolute_difference_answer                                        *)
(***************************************************************************)
\* clean_and_convert_to_number of a candidate; of str(v) it gives v back,
\* or the text "inf" / "-inf" when v is infinite
Answer(c) ==
  IF c.k = "text" THEN clean_and_convert_to_number(c.s)
  ELSE IF c.k = "repr" /\ IsInf(c.v)
       THEN StrV(IF c.v.m < 0 THEN <<tNEG, tINF>> ELSE <<tINF>>)
  ELSE c.v

\* is_valid_number(answer) and not is_input_number(answer, input_numbers)
Accepted(c, input_numbers) ==
  IF c.k = "raise" THEN "OverflowError"
  ELSE IF c.k = "none" \/ ~is_valid_number(Answer(c)) THEN "no"
  ELSE [True |-> "no", False |-> "yes", OverflowError |-> "OverflowError"]
         [is_input_number(Answer(c), input_numbers)]

\* what a call gives: the returned pair and the number of the strategy that
\* returned it (0 for the final return), or the exception that left the call
Returned(flag, value, by) == [status |-> "returned", flag |-> flag, value |-> value, by |-> by]
Raised(by) == [status |-> "OverflowError", flag |-> FALSE, value |-> NoneV, by |-> by]
NoResult == [status |-> "none", flag |-> FALSE, value |-> NoneV, by |-> 0]

\* input_numbers = extract_input_numbers_from_prompt(prompt) if prompt else []
InputNumbers(prompt) ==
  IF prompt # <<>> THEN extract_input_numbers_from_prompt(prompt) ELSE <<>>

RECURSIVE Cascade(_, _, _, _, _)
\* the strategies tried in the order given: cands[n] is the candidate of
\* strategy n, flags[n] what it reports with it; the first accepted candidate
\* is returned
Cascade(cands, flags, input_numbers, order, i) ==
  IF i > Len(order) THEN Returned(FALSE, NoneV, 0)
  ELSE LET Decide(a) ==
             IF a = "OverflowError" THEN Raised(order[i])
             ELSE IF a = "yes"
                  THEN Returned(flags[order[i]], Answer(cands[order[i]]), order[i])
             ELSE Cascade(cands, flags, input_numbers, order, i + 1)
       IN Decide(Accepted(cands[order[i]], input_numbers))

\* the explicit statement tried before the box
ExplicitFirstOrder == <<3, 2, 1, 4, 5, 6, 7, 8, 9, 10>>

\* the order in which the strategies are tried
StrategyOrder == <<1, 2, 3, 4, 5, 6, 7, 8, 9, 10>>

\* the candidate of strategy n of parse_absolute_difference_answer
AbsDiffCandidate(n, s, input_numbers) ==
  CASE n = 1 -> extract_from_boxed_formats(s)[1]
    [] n = 2 -> extract_from_markdown_formatting(s)
    [] n = 3 -> extract_from_explicit_statements(s)[1]
    [] n = 4 -> extract_from_latex_math(s)
    [] n = 5 -> extract_from_code_blocks(s)
    [] n = 6 -> extract_from_last_line(s)
    [] n = 7 -> extract_from_scientific_notation(s)
    [] n = 8 -> extract_from_array_format(s)
    [] n = 9 -> extract_from_calculation_steps(s, input_numbers)
    [] n = 10 -> IF TextLen(Strip(s)) < ShortLen THEN extract_plain_number(s) ELSE NoCand

\* the flag of the boxed extractor reported with every strategy's value
AnyBoxFlag(n, s) == extract_from_boxed_formats(s)[2]

\* what strategy n reports as instruction_followed
AbsDiffFlag(n, s) ==
  IF n = 1 THEN extract_from_boxed_formats(s)[2]
  ELSE IF n = 3 THEN extract_from_explicit_statements(s)[2]
  ELSE FALSE

parse_absolute_difference_answer(s, prompt) ==
  Cascade([n \in 1..10 |-> AbsDiffCandidate(n, s, InputNumbers(prompt))],
          [n \in 1..10 |-> AbsDiffFlag(n, s)],
          InputNumbers(prompt), StrategyOrder, 1)

(***************************************************************************)
(* multiplication_parsing.py.  clean_and_convert_to_number, is_valid_number,*)
(* is_input_number, extract_input_numbers_from_prompt and the scientific   *)
(* and array extractors read as in absolute_difference_parsing.py on these *)
(* lexemes ("*" stands only in tBOLD, so no "X * Y = Z" can match).        *)
(***************************************************************************)
\* int(value) if value.is_integer() else value, for a float value; the int of
\* a float above 2^53 is the int of the nearest binary64 value
IntIfInteger(v) ==
  IF IsInf(v) THEN v
  ELSE IF Canon(v.m, v.e)[2] <= 0
       THEN [k |-> "int", m |-> Canon(v.m, v.e)[1], e |-> Canon(v.m, v.e)[2], s |-> <<>>]
  ELSE v

\* the decimal exponent of a non-zero finite number: v = d.ddd * 10^p
Magnitude(v) == NumDigits(Abs(v.m)) - 1 - v.e

\* abs(a) > abs(b)
AbsGreater(a, b) ==
  IF IsInf(a) THEN ~IsInf(b)
  ELSE IF IsInf(b) \/ a.m = 0 THEN FALSE
  ELSE IF b.m = 0 THEN TRUE
  ELSE IF Magnitude(a) # Magnitude(b) THEN Magnitude(a) > Magnitude(b)
  ELSE LET na == NumDigits(Abs(a.m))
           nb == NumDigits(Abs(b.m))
           d  == IF na > nb THEN na ELSE nb
       IN Abs(a.m) * Pow10(d - na) > Abs(b.m) * Pow10(d - nb)

\* special_boxed_content = [inner_content.group(1)]: only the last box is kept
mul_special_boxed_content(s) ==
  IF BoxedFrom(s, 1) = <<>> THEN <<>> ELSE <<Last(BoxedFrom(s, 1))>>

mul_all_matches(s) ==
  standard_boxed(s) \o malformed_boxed1(s) \o mul_special_boxed_content(s)
    \o plain_boxed(s) \o boxed_with_dollar(s) \o NegValues(neg_boxed(s))

mul_extract_from_boxed_formats(s) ==
  LET am == mul_all_matches(s)
  IN IF am # <<>> THEN <<TextCand(Strip(Last(am))), TRUE>> ELSE <<NoCand, FALSE>>

HasAnswerWord(c) == \E i \in 1..Len(c) : c[i] \in {tANS, tANSL, tANSR, tANSB}

RECURSIVE ProductMatchFrom(_, _)
\* the first number of the first match that holds "answer" and a number
ProductMatchFrom(ms, i) ==
  IF i > Len(ms) THEN NoCand
  ELSE IF HasAnswerWord(ms[i]) /\ FirstSciAt(ms[i], 1) # 0
       THEN LET q == FirstSciAt(ms[i], 1)
            IN TextCand(Slice(ms[i], q, SciEnd(ms[i], q) - 1))
  ELSE ProductMatchFrom(ms, i + 1)

RECURSIVE WholeNumberFrom(_, _)
\* the first match that is a number and nothing else
WholeNumberFrom(ms, i) ==
  IF i > Len(ms) THEN NoCand
  ELSE IF SciEnd(Strip(ms[i]), 1) = Len(ms[i]) + 1 THEN TextCand(Strip(ms[i]))
  ELSE WholeNumberFrom(ms, i + 1)

\* bold spans, then `...` spans; the bracket and parenthesis expressions match no lexeme
mul_extract_from_markdown_formatting(s) ==
  LET ms == bold_asterisks(s) \o PairSpans(s, 1, tTICK)
      pm == ProductMatchFrom(ms, 1)
  IN IF pm.k # "none" THEN pm ELSE WholeNumberFrom(ms, 1)

\* after the first pattern, only (?:^|\n|\s)(?:^|\n)(number)(?:$|\n) can match:
\* the whole text is one number
mul_extract_from_explicit_statements(s) ==
  LET ms == ExplicitFrom(s, 1)
  IN IF ms # <<>> THEN <<TextCand(Strip(Last(ms))), FALSE>>
     ELSE IF s # <<>> /\ SciEnd(s, 1) = Len(s) + 1 THEN <<TextCand(s), FALSE>>
     ELSE <<NoCand, FALSE>>

RECURSIVE EqTailFrom(_, _)
\* =\s*(number)$ in match.strip(), for the first match that has it
EqTailFrom(ms, i) ==
  IF i > Len(ms) THEN NoCand
  ELSE LET c == Strip(ms[i])
           q == EqSciTailAt(c, 1)
       IN IF q # 0 THEN TextCand(Slice(c, q + 1, Len(c)))
          ELSE EqTailFrom(ms, i + 1)

\* no lexeme holds "product"
mul_extract_from_latex_math(s) == EqTailFrom(PairSpans(s, 1, tDOL), 1)

RECURSIVE StarSciTailAt(_, _)
\* [×*]\s*(number)\s*$: index of the leftmost tBOLD that a number follows to the end
StarSciTailAt(s, i) ==
  IF i > Len(s) THEN 0
  ELSE IF s[i] = tBOLD /\ SciEnd(s, i + 1) = Len(s) + 1 THEN i
  ELSE StarSciTailAt(s, i + 1)

\* inside the blocks every expression needs a word no lexeme has
mul_extract_from_code_blocks(s) ==
  LET q == StarSciTailAt(s, 1)
  IN IF q # 0 THEN TextCand(Slice(s, q + 1, Len(s))) ELSE NoCand

\* every expression needs "product", "result", "final" or "so" before "the answer is"
mul_extract_from_last_line(s) == NoCand

mul_extract_from_calculation_steps(s, input_numbers) ==
  LET Final(fs, r) ==
        IF r = "OverflowError" THEN RaiseCand
        ELSE IF r = "False" THEN TextCand(fs)
        ELSE NoCand
      Echoed(fs) == IF fs = <<>> THEN "True" ELSE is_input_number(StrV(fs), input_numbers)
  IN Final(FinalStepFrom(s, 1), Echoed(FinalStepFrom(s, 1)))

RECURSIVE AnsSciAt(_, _)
\* (?:...|answer|...)\s+(?:is|=)\s*(number): index of the leftmost tANS a number follows
AnsSciAt(s, i) ==
  IF i > Len(s) THEN 0
  ELSE IF s[i] = tANS /\ SciEnd(s, i + 1) # 0 THEN i
  ELSE AnsSciAt(s, i + 1)

RECURSIVE TailSciAt(_, _)
\* (number)$: start of the leftmost match, 0 if none
TailSciAt(s, i) ==
  IF i > Len(s) THEN 0
  ELSE IF SciEnd(s, i) = Len(s) + 1 THEN i
  ELSE TailSciAt(s, i + 1)

RECURSIVE AllSciFrom(_, _)
\* re.findall of the number: float(match) of the matches
AllSciFrom(s, i) ==
  IF i > Len(s) THEN <<>>
  ELSE IF SciEnd(s, i) # 0
       THEN <<PyFloat(Slice(s, i, SciEnd(s, i) - 1))>> \o AllSciFrom(s, SciEnd(s, i))
  ELSE AllSciFrom(s, i + 1)

RECURSIVE LargestAbs(_, _, _)
\* the first value of the largest absolute value (a stable descending sort's first)
LargestAbs(vals, i, best) ==
  IF i > Len(vals) THEN best
  ELSE IF AbsGreater(vals[i], best) THEN LargestAbs(vals, i + 1, vals[i])
  ELSE LargestAbs(vals, i + 1, best)

mul_extract_plain_number(s) ==
  LET st == Strip(s)
      a  == AnsSciAt(s, 1)
      q  == TailSciAt(st, 1)
      fm == AllSciFrom(s, 1)
  IN IF TextLen(st) < ShortLen /\ st # <<>> /\ SciEnd(st, 1) = Len(st) + 1
     THEN NumCand(PyNumber(st))
     ELSE IF a # 0 THEN NumCand(PyNumber(Slice(s, a + 1, SciEnd(s, a + 1) - 1)))
     ELSE IF q # 0 THEN NumCand(IntIfInteger(PyFloat(Slice(st, q, Len(st)))))
     ELSE IF fm # <<>> THEN NumCand(IntIfInteger(LargestAbs(fm, 2, fm[1])))
     ELSE NoCand

MulCandidate(n, s, input_numbers) ==
  CASE n = 1 -> mul_extract_from_boxed_formats(s)[1]
    [] n = 2 -> mul_extract_from_markdown_formatting(s)
    [] n = 3 -> mul_extract_from_explicit_statements(s)[1]
    [] n = 4 -> mul_extract_from_latex_math(s)
    [] n = 5 -> mul_extract_from_code_blocks(s)
    [] n = 6 -> mul_extract_from_last_line(s)
    [] n = 7 -> extract_from_scientific_notation(s)
    [] n = 8 -> extract_from_array_format(s)
    [] n = 9 -> mul_extract_from_calculation_steps(s, input_numbers)
    [] n = 10 -> IF TextLen(Strip(s)) < ShortLen THEN mul_extract_plain_number(s) ELSE NoCand

MulFlag(n, s) ==
  IF n = 1 THEN mul_extract_from_boxed_formats(s)[2]
  ELSE IF n = 3 THEN mul_extract_from_explicit_statements(s)[2]
  ELSE FALSE

parse_multiplication_answer(s, prompt) ==
  Cascade([n \in 1..10 |-> MulCandidate(n, s, InputNumbers(prompt))],
          [n \in 1..10 |-> MulFlag(n, s)],
          InputNumbers(prompt), StrategyOrder, 1)

(***************************************************************************)
(* subtraction_parsing.py.  is_valid_number, is_input_number,              *)
(* extract_input_numbers_from_prompt and the markdown, explicit and LaTeX  *)
(* extractors read as in absolute_difference_parsing.py on these lexemes.  *)
(***************************************************************************)
\* calc_match looks for "X - Y = Z"
sub_clean_and_convert_to_number(text) == CleanAndConvert(text, tNEG)

\* all_matches = standard_boxed + ... ; then "-" + match for every neg_boxed match
sub_all_matches(s) == standard_boxed(s) \o NegValues(neg_boxed(s))

sub_extract_from_boxed_formats(s) ==
  LET am == sub_all_matches(s)
  IN IF am # <<>> THEN <<TextCand(Strip(Last(am))), TRUE>> ELSE <<NoCand, FALSE>>

\* the last `...` span, whatever it holds
sub_extract_from_code_blocks(s) ==
  LET ms == PairSpans(s, 1, tTICK)
  IN IF ms # <<>> THEN TextCand(Strip(Last(ms))) ELSE NoCand

\* the lines only: no sentences are tried
sub_extract_from_last_line(s) ==
  LET line == Strip(s)
      q    == TailNumDotAt(line, 1)
  IN IF q # 0 THEN TextCand(Slice(line, q, NumEnd(line, q) - 1)) ELSE NoCand

RECURSIVE ExpMatchesFrom(_, _)
\* re.findall(([+-]?\d+(?:\.\d+)?[eE][+-]?\d+))
ExpMatchesFrom(s, i) ==
  LET q == FirstExpAt(s, i)
  IN IF q = 0 THEN <<>>
     ELSE <<Slice(s, q, SciEnd(s, q) - 1)>> \o ExpMatchesFrom(s, SciEnd(s, q))

\* matches[-1].strip(): the text of the last match, not str(float(match))
sub_extract_from_scientific_notation(s) ==
  LET ms == ExpMatchesFrom(s, 1)
  IN IF ms # <<>> THEN TextCand(Last(ms)) ELSE NoCand

\* [X] and (X) match no lexeme
sub_extract_from_array_format(s) == NoCand

sub_extract_plain_number(s) ==
  LET st == Strip(s)
  IN IF TextLen(st) < ShortLen /\ st # <<>> /\ NumEnd(st, 1) = Len(st) + 1
     THEN NumCand(PyNumber(st))
     ELSE NoCand

SubCandidate(n, s, input_numbers) ==
  CASE n = 1 -> sub_extract_from_boxed_formats(s)[1]
    [] n = 2 -> extract_from_markdown_formatting(s)
    [] n = 3 -> extract_from_explicit_statements(s)[1]
    [] n = 4 -> extract_from_latex_math(s)
    [] n = 5 -> sub_extract_from_code_blocks(s)
    [] n = 6 -> sub_extract_from_last_line(s)
    [] n = 7 -> sub_extract_from_scientific_notation(s)
    [] n = 8 -> sub_extract_from_array_format(s)
    [] n = 9 -> extract_from_calculation_steps(s, input_numbers)
    [] n = 10 -> IF TextLen(Strip(s)) < ShortLen THEN sub_extract_plain_number(s) ELSE NoCand

SubAnswer(c) == IF c.k = "text" THEN sub_clean_and_convert_to_number(c.s) ELSE c.v

SubAccepted(c, input_numbers) ==
  IF c.k = "raise" THEN "OverflowError"
  ELSE IF c.k = "none" \/ ~is_valid_number(SubAnswer(c)) THEN "no"
  ELSE [True |-> "no", False |-> "yes", OverflowError |-> "OverflowError"]
         [is_input_number(SubAnswer(c), input_numbers)]

\* "\\boxed{-" in clean_response
BoxedMinusIn(s) == \E i \in 1..(Len(s) - 1) : s[i] = tBOX /\ s[i + 1] = tNEG

\* re.search(r'[-]\d+\s*[-]\s*\d+\s*=\s*[-]\d+'); the expression with "+" matches no lexeme
NegativeStepIn(s) ==
  \E i \in 1..Len(s) :
    LET a == DigitsEnd(s, i + 1)
        b == DigitsEnd(s, a + 1)
    IN /\ s[i] = tNEG /\ a > i + 1
       /\ a <= Len(s) /\ s[a] = tNEG /\ b > a + 1
       /\ b + 2 <= Len(s) /\ s[b] = tEQ /\ s[b + 1] = tNEG /\ IsDigit(s[b + 2])

\* the sign corrections applied to an accepted answer of strategy n
SignCorrected(n, c, answer, s) ==
  IF ~(IsNum(answer) /\ answer.m > 0) THEN answer
  ELSE IF n # 10 /\ c.k = "text" /\ c.s # <<>> /\ c.s[1] = tNEG THEN Neg(answer)
  ELSE IF n = 1 /\ BoxedMinusIn(s) THEN Neg(answer)
  ELSE IF NegativeStepIn(s) THEN Neg(answer)
  ELSE answer

RECURSIVE SubCascade(_, _, _, _)
\* cands[n] is the candidate of strategy n
SubCascade(cands, s, input_numbers, n) ==
  IF n > Len(cands) THEN Returned(FALSE, NoneV, 0)
  ELSE LET Decide(a) ==
             IF a = "OverflowError" THEN Raised(n)
             ELSE IF a = "yes"
                  THEN Returned(n = 1 /\ sub_extract_from_boxed_formats(s)[2],
                                SignCorrected(n, cands[n], SubAnswer(cands[n]), s), n)
             ELSE SubCascade(cands, s, input_numbers, n + 1)
       IN Decide(SubAccepted(cands[n], input_numbers))

parse_subtraction_answer(s, prompt) ==
  SubCascade([n \in 1..10 |-> SubCandidate(n, s, InputNumbers(prompt))],
             s, InputNumbers(prompt), 1)

(***************************************************************************)
(* sum_parsing.py.  The cascade has five strategies and no validity check  *)
(* or echo filter: the first strategy with a candidate ends it.            *)
(***************************************************************************)
tGT == ">"

RECURSIVE GroupsEnd(_, _)
\* (?:,\d{3})* from index k: the first index after the match
GroupsEnd(s, k) ==
  IF k + 3 <= Len(s) /\ s[k] = tCM /\ IsDigit(s[k + 1]) /\ IsDigit(s[k + 2])
       /\ IsDigit(s[k + 3])
  THEN GroupsEnd(s, k + 4)
  ELSE k

\* [+-]?(?:\d{1,3}(?:,\d{3})+|\d+)(?:\.\d+)? from index i: the first index after
\* the match, 0 if none.  The groups of three need a run of one to three
\* digits before the first comma.
CommaNumEnd(s, i) ==
  LET Fraction(g) ==
        IF g + 1 <= Len(s) /\ s[g] = tDOT /\ IsDigit(s[g + 1]) THEN DigitsEnd(s, g + 1)
        ELSE g
      Run(j, d) ==
        IF d = j THEN 0
        ELSE Fraction(IF d - j <= 3 THEN GroupsEnd(s, d) ELSE d)
      Signed(j) == Run(j, DigitsEnd(s, j))
  IN Signed(SignEnd(s, i))

\* the first number, with or without commas and without exponent; the commas
\* are taken out of it (the digits are read past them)
sum_clean_and_convert_to_number(text) ==
  IF text = <<>> THEN NoneV
  ELSE LET Number(t, nm) ==
             IF nm # 0 THEN PyNumber(Slice(t, nm, CommaNumEnd(t, nm) - 1)) ELSE StrV(t)
           Clean(t) == Number(t, FirstNumAt(t, 1))
       IN Clean(SubLatexMarkdown(text))

\* find_maximum_parsing.py: the first number without exponent (a literal of
\* the runs is far below the floats' range, so float_val is never infinite)
max_clean_and_convert_to_number(text) ==
  IF text = <<>> THEN NoneV
  ELSE LET Number(t, nm) ==
             IF nm # 0 THEN PyNumber(Slice(t, nm, NumEnd(t, nm) - 1)) ELSE StrV(t)
           Clean(t) == Number(t, FirstNumAt(t, 1))
       IN Clean(SubLatexMarkdown(text))

\* only \\boxed\{([^{}]*)\} matches a lexeme
sum_extract_from_boxed_formats(s) ==
  LET am == BoxedFrom(s, 1)
  IN IF am # <<>> THEN <<TextCand(Strip(Last(am))), TRUE>> ELSE <<NoCand, FALSE>>

RECURSIVE LazyExplicitFrom(_, _)
\* (?:^|\n|\s)(?:answer|the answer is|...)[:\s]+(.+?)\s*(?:\n|$|\.): the lazy
\* capture holds at least one character and runs to the next "." or to the
\* end; after a closing "the answer is " the expression matches at " answer "
\* and captures "is"
LazyExplicitFrom(s, i) ==
  LET a == NextAt(s, i, {tANS})
      d == NextAt(s, a + 2, {tDOT})
  IN IF a > Len(s) THEN <<>>
     ELSE IF a = Len(s) THEN <<(<<tISS>>)>>
     ELSE <<Strip(Slice(s, a + 1, d - 1))>> \o LazyExplicitFrom(s, d + 1)

\* (?:^|\n|\s)([-]?\d{1,3}(?:,\d{3})*(?:\.\d+)?)(?:\n|$|\.) where no blank
\* occurs: the match starts the text; <<>> if none
StandaloneNumber(s) ==
  LET j == SignEnd(s, 1)
      k == DigitsEnd(s, j)
      f == IF k + 1 <= Len(s) /\ s[k] = tDOT /\ IsDigit(s[k + 1])
           THEN DigitsEnd(s, k + 1) ELSE 0
  IN IF k - j < 1 \/ k - j > 3 THEN <<>>
     ELSE IF f # 0 /\ (f = Len(s) + 1 \/ s[f] = tDOT) THEN Slice(s, 1, f - 1)
     ELSE IF k = Len(s) + 1 \/ s[k] = tDOT THEN Slice(s, 1, k - 1)
     ELSE <<>>

\* the first pattern matches whenever tANS occurs, the last one is the number
\* standing alone; the patterns between need words no lexeme has
sum_extract_from_explicit_statements(s) ==
  LET ms == LazyExplicitFrom(s, 1)
      sn == StandaloneNumber(s)
  IN IF ms # <<>> THEN <<TextCand(Strip(Last(ms))), FALSE>>
     ELSE IF sn # <<>> THEN <<TextCand(sn), FALSE>>
     ELSE <<NoCand, FALSE>>

sum_extract_from_latex_math(s) ==
  LET ms == PairSpans(s, 1, tDOL)
  IN IF ms # <<>> THEN TextCand(Strip(Last(ms))) ELSE NoCand

\* print(...), return ... and answer = ... match no lexeme
sum_extract_from_code_blocks(s) == NoCand

RECURSIVE IntSentenceFrom(_, _)
\* for i in range(min(3, len(sentences))): a sentence holds no ".", so the
\* number at its end is ([+-]?\d+) and group(2) is all of it
IntSentenceFrom(sentences, i) ==
  IF i >= Len(sentences) \/ i >= 3 THEN NoCand
  ELSE LET sentence == Strip(sentences[Len(sentences) - i])
           q == TailNumAt(sentence, 1)
       IN IF q # 0 THEN TextCand(Slice(sentence, q, Len(sentence)))
          ELSE IntSentenceFrom(sentences, i + 1)

\* sentences[-1].split("=")[-1]
AfterLastEq(x) ==
  LET es == IndexesFrom(x, 1, tEQ)
  IN IF es = <<>> THEN x ELSE Slice(x, Last(es) + 1, Len(x))

\* ([+-]?\d+(?:,\d{3})*)(?:\.\d+)?\.?$ on the one line: group(2) leaves the
\* fraction out; then the sentences; then the first number after the last "="
sum_extract_from_last_line(s) ==
  LET line == Strip(s)
      q    == TailNumDotAt(line, 1)
      sc   == IntSentenceFrom(SplitDot(s, 1), 0)
      seg  == AfterLastEq(Last(SplitDot(s, 1)))
      n    == FirstNumAt(seg, 1)
  IN IF q # 0 THEN TextCand(Slice(line, q, IntEnd(line, q) - 1))
     ELSE IF sc.k # "none" THEN sc
     ELSE IF n # 0 THEN TextCand(Slice(seg, n, NumEnd(seg, n) - 1))
     ELSE NoCand

SumCandidate(n, s) ==
  CASE n = 1 -> sum_extract_from_boxed_formats(s)[1]
    [] n = 2 -> sum_extract_from_explicit_statements(s)[1]
    [] n = 3 -> sum_extract_from_latex_math(s)
    [] n = 4 -> sum_extract_from_code_blocks(s)
    [] n = 5 -> sum_extract_from_last_line(s)

RECURSIVE SumCascade(_, _)
\* if x_answer is not None: return instruction_followed, clean_and_convert_to_number(x_answer)
SumCascade(s, n) ==
  IF n > 5 THEN Returned(FALSE, NoneV, 0)
  ELSE IF SumCandidate(n, s).k # "none"
       THEN Returned(n = 1, sum_clean_and_convert_to_number(SumCandidate(n, s).s), n)
  ELSE SumCascade(s, n + 1)

parse_sum_answer(s) == SumCascade(s, 1)

(***************************************************************************)
(* odd_count_parsing.py                                                    *)
(***************************************************************************)
RECURSIVE AllNumFrom(_, _)
\* re.findall of the number pattern
AllNumFrom(s, i) ==
  LET q == FirstNumAt(s, i)
  IN IF q = 0 THEN <<>>
     ELSE <<Slice(s, q, NumEnd(s, q) - 1)>> \o AllNumFrom(s, NumEnd(s, q))

\* of several numbers the first if later else the last; None when there is none
odd_clean_and_convert_to_number(text, later) ==
  IF text = <<>> THEN NoneV
  ELSE LET ns == AllNumFrom(SubLatexMarkdown(text), 1)
       IN IF ns = <<>> THEN NoneV
          ELSE IF later THEN PyNumber(ns[1])
          ELSE PyNumber(Last(ns))

odd_extract_from_boxed_formats(s) ==
  LET am == BoxedFrom(s, 1)
  IN IF am # <<>> THEN <<TextCand(Strip(Last(am))), TRUE>> ELSE <<NoCand, FALSE>>

\* <<candidate, instruction_followed, later>>: the first pattern (index 0 <= 7)
\* matches whenever tANS occurs; the others need words no lexeme has
odd_extract_from_explicit_statements(s) ==
  LET ms == LazyExplicitFrom(s, 1)
  IN IF ms # <<>> THEN <<TextCand(Strip(Last(ms))), FALSE, TRUE>>
     ELSE <<NoCand, FALSE, FALSE>>

odd_extract_from_latex_math(s) ==
  LET ms == PairSpans(s, 1, tDOL)
  IN IF ms # <<>> THEN TextCand(Strip(Last(ms))) ELSE NoCand

odd_extract_from_code_blocks(s) == NoCand

odd_extract_from_last_line(s) ==
  LET line == Strip(s)
      q    == TailNumDotAt(line, 1)
      sc   == IntSentenceFrom(SplitDot(s, 1), 0)
      seg  == AfterLastEq(Last(SplitDot(s, 1)))
      n    == FirstNumAt(seg, 1)
  IN IF q # 0 THEN TextCand(Slice(line, q, IntEnd(line, q) - 1))
     ELSE IF sc.k # "none" THEN sc
     ELSE IF n # 0 THEN TextCand(Slice(seg, n, NumEnd(seg, n) - 1))
     ELSE NoCand

OddCandidate(n, s) ==
  CASE n = 1 -> odd_extract_from_boxed_formats(s)[1]
    [] n = 2 -> odd_extract_from_explicit_statements(s)[1]
    [] n = 3 -> odd_extract_from_latex_math(s)
    [] n = 4 -> odd_extract_from_code_blocks(s)
    [] n = 5 -> odd_extract_from_last_line(s)

RECURSIVE OddCascade(_, _)
OddCascade(s, n) ==
  IF n > 5 THEN Returned(FALSE, NoneV, 0)
  ELSE IF OddCandidate(n, s).k # "none"
       THEN Returned(n = 1,
                     odd_clean_and_convert_to_number(OddCandidate(n, s).s,
                       n = 2 /\ odd_extract_from_explicit_statements(s)[3]), n)
  ELSE OddCascade(s, n + 1)

parse_odd_count_answer(s) == OddCascade(s, 1)

(***************************************************************************)
(* mean_parsing.py and MeanTask.evaluate_response (tasks/mean_task.py)     *)
(***************************************************************************)
\* the patterns with a comma, "^", "\times", "x", "/" or a blank after "-" match no
\* lexeme of a response to the mean task
mean_clean_and_convert_to_number(text) ==
  IF text = <<>> THEN NoneV
  ELSE LET t  == SubLatexMarkdown(text)
           le == EqSciTailAt(t, 1)
           nm == FirstSciAt(t, 1)
       IN IF le # 0 THEN PyNumber(Slice(t, le + 1, Len(t)))
          ELSE IF nm # 0 THEN PyNumber(Slice(t, nm, SciEnd(t, nm) - 1))
          ELSE StrV(t)

mean_is_valid_number(value) ==
  IF value.k = "none" THEN FALSE
  ELSE IF IsNum(value) THEN TRUE
  ELSE FloatParses(value.s)

\* standard_boxed, then "-" + match for every match of neg_boxed
mean_extract_from_boxed_formats(s) ==
  LET am == BoxedFrom(s, 1) \o NegValues(NegBoxedFrom(s, 1))
  IN IF am # <<>> THEN <<TextCand(Strip(Last(am))), TRUE>> ELSE <<NoCand, FALSE>>

\* [:\s]+([^\n\.;]+) after "the answer is"; "the mean is" and the like match no lexeme
mean_extract_from_explicit_statements(s) ==
  LET ms == ExplicitFrom(s, 1)
  IN IF ms # <<>> THEN TextCand(Strip(Last(ms))) ELSE NoCand

mean_extract_from_latex_math(s) ==
  LET ms == PairSpans(s, 1, tDOL)
  IN IF ms # <<>> THEN TextCand(Strip(Last(ms))) ELSE NoCand

\* ([+-]?\d+(?:\.\d+)?)\.?$ on the one line; a line the expression with an
\* exponent matches ends with a digit, so the first expression matches it
mean_extract_from_last_line(s) ==
  LET line == Strip(s)
      q    == TailNumDotAt(line, 1)
  IN IF q # 0 THEN TextCand(Slice(line, q, NumEnd(line, q) - 1)) ELSE NoCand

MeanCandidate(n, s) ==
  CASE n = 1 -> mean_extract_from_boxed_formats(s)[1]
    [] n = 2 -> mean_extract_from_explicit_statements(s)
    [] n = 3 -> mean_extract_from_latex_math(s)
    [] n = 4 -> mean_extract_from_last_line(s)

RECURSIVE MeanCascade(_, _)
\* [value, by]: the answer and the strategy that gave it (0: None)
MeanCascade(s, n) ==
  IF n > 4 THEN [value |-> NoneV, by |-> 0]
  ELSE LET c == MeanCandidate(n, s)
           answer == mean_clean_and_convert_to_number(c.s)
       IN IF c.k # "none" /\ mean_is_valid_number(answer)
          THEN [value |-> answer, by |-> n]
          ELSE MeanCascade(s, n + 1)

parse_mean_answer(s) == MeanCascade(s, 1)

\* sum(numbers) / len(numbers), exact with one decimal for lists of one or two numbers
MeanOf(numbers) ==
  LET c == Canon((SumSeq(numbers) * 10) \div Len(numbers), 1) IN FloatV(c[1], c[2])

\* abs(parsed_answer - mean) < 1e-6 raises TypeError for a str; a difference
\* below 1e-6 that is not 0 needs a literal of more than seven digits
evaluate_response(response, input_list) ==
  LET parsed == parse_mean_answer(response)
      instruction_followed == parsed.value.k # "none"
  IN IF instruction_followed /\ parsed.value.k = "str"
     THEN [status |-> "TypeError", flag |-> instruction_followed, value |-> parsed.value,
           by |-> parsed.by, accuracy |-> 0, ground_truth |-> MeanOf(input_list)]
     ELSE [status |-> "returned", flag |-> instruction_followed, value |-> parsed.value,
           by |-> parsed.by,
           accuracy |-> IF instruction_followed /\ NumEq(parsed.value, MeanOf(input_list))
                        THEN 1 ELSE 0,
           ground_truth |-> MeanOf(input_list)]

(***************************************************************************)
(* comparison_parsing.py.  An extractor's None and '' are both <<>>: the   *)
(* chain of "or" treats them alike.                                        *)
(***************************************************************************)
tGREATER == "greater than"
tLESS    == "less than"
tEQUAL   == "equal to"
tLT      == "<"
\* the labels a response gives the two numbers of the prompt
tNUM1    == "Number 1:"
tNUM2    == "Number 2:"
tNUMBER1 == "Number 1"
tNUMBER2 == "Number 2"
tEXCEEDS == "exceeds"
tBELOW   == "below"
tISW     == " is "

NotEmpty(x) == x # <<>>

\* \\boxed{([^{}]+)}: the boxes with a content; the other patterns match no lexeme
extract_from_boxed_format(text) ==
  LET ms == SelectSeq(BoxedFrom(text, 1), NotEmpty)
  IN IF ms # <<>> THEN Strip(Last(ms)) ELSE <<>>

RECURSIVE StatementFrom(_, _)
\* (?:the |final |my )?(?:answer|...) (?:is|...)[:\s]+([^\.]+): "the answer is",
\* a blank, and a capture up to the next "."
StatementFrom(text, i) ==
  LET a == NextAt(text, i, {tANS, tANSL})
      d == NextAt(text, a + 1, {tDOT})
  IN IF a > Len(text) THEN <<>>
     ELSE IF d = a + 1 THEN StatementFrom(text, a + 1)
     ELSE <<Slice(text, a + 1, d - 1)>> \o StatementFrom(text, d)

extract_from_explicit_statement(text) ==
  LET ms == StatementFrom(text, 1)
  IN IF ms # <<>> THEN Strip(Last(ms)) ELSE <<>>

Contains(x, t) == \E i \in 1..Len(x) : x[i] = t

\* the relation a sentence shows: the words need letters no lexeme of a
\* response has, the symbols are looked for in the order '>', '<', '='
RelationIn(sentence) ==
  IF Contains(sentence, tGT) THEN <<tGREATER>>
  ELSE IF Contains(sentence, tLT) THEN <<tLESS>>
  ELSE IF Contains(sentence, tEQ) THEN <<tEQUAL>>
  ELSE <<>>

\* re.split(r'[.!?]+'), the stripped sentences that are not empty, the last two
extract_from_final_sentence(text) ==
  LET all == SplitDot(text, 1)
      sentences == SelectSeq([i \in 1..Len(all) |-> Strip(all[i])], NotEmpty)
      n == Len(sentences)
  IN IF n = 0 THEN <<>>
     ELSE IF RelationIn(sentences[n]) # <<>> THEN RelationIn(sentences[n])
     ELSE IF n >= 2 THEN RelationIn(sentences[n - 1])
     ELSE <<>>

RECURSIVE SymbolAt(_, _)
\* (\d+)\s*(>|<|=)\s*(\d+): index of the symbol of the leftmost match, 0 if none
SymbolAt(text, i) ==
  IF i > Len(text) THEN 0
  ELSE LET k == DigitsEnd(text, i)
       IN IF k > i /\ k + 1 <= Len(text) /\ text[k] \in {tGT, tLT, tEQ}
               /\ IsDigit(text[k + 1])
          THEN k
          ELSE SymbolAt(text, i + 1)

\* number\s*1\s*(?::|is|=)\s*(\d+) on the lowered text: the digits after the
\* first label that digits follow, <<>> if there is none
LabelledValue(text, label) ==
  LET at == {i \in 1..Len(text) - 1 : text[i] = label /\ IsDigit(text[i + 1])}
      Least(set) == CHOOSE i \in set : \A j \in set : i <= j
  IN IF at = {} THEN <<>>
     ELSE <<DigitsValue(Slice(text, Least(at) + 1, DigitsEnd(text, Least(at) + 1) - 1), 0)>>

\* the symbol of the leftmost "X > Y", "X < Y", "X = Y", reversed when X is the
\* value labelled Number 2 and Y the value labelled Number 1
extract_from_comparison_symbols(text) ==
  LET k == SymbolAt(text, 1)
      Start(e) == CHOOSE i \in 1..e - 1 :
                    DigitsEnd(text, i) = e /\ (i = 1 \/ ~IsDigit(text[i - 1]))
      num1 == DigitsValue(Slice(text, Start(k), k - 1), 0)
      num2 == DigitsValue(Slice(text, k + 1, DigitsEnd(text, k + 1) - 1), 0)
      num1_pattern == LabelledValue(text, tNUM1)
      num2_pattern == LabelledValue(text, tNUM2)
      reversed == /\ num1_pattern # <<>>
                  /\ num2_pattern # <<>>
                  /\ num1 = num2_pattern[1]
                  /\ num2 = num1_pattern[1]
      symbol == IF ~reversed THEN text[k]
                ELSE IF text[k] = tLT THEN tGT
                ELSE IF text[k] = tGT THEN tLT
                ELSE tEQ
  IN IF k = 0 THEN <<>>
     ELSE IF symbol = tGT THEN <<tGREATER>>
     ELSE IF symbol = tLT THEN <<tLESS>>
     ELSE <<tEQUAL>>

\* re.search(r'number\s*a.*number\s*b', result) of result.lower(), for a, b the
\* labels of the two numbers
NumberedIn(result, a, b) ==
  \E i, j \in 1..Len(result) : i < j /\ result[i] \in a /\ result[j] \in b

\* The terms of each family that are lexemes: 'greater', '>' and 'exceeds';
\* 'less', '<' and 'below'; 'equal' and '='.  The branches for
\* "number 1 ... number 2" and "number 2 ... number 1" look for the terms of
\* the first three branches without 'exceeds', 'below' and 'identical'
normalize_comparison_result(result) ==
  LET HasTerm(terms) == \E i \in 1..Len(result) : result[i] \in terms
      Numbered(greater, less) ==
        IF HasTerm({tGREATER, tGT}) THEN StrV(<<greater>>)
        ELSE IF HasTerm({tLESS, tLT}) THEN StrV(<<less>>)
        ELSE IF HasTerm({tEQUAL, tEQ}) THEN StrV(<<tEQUAL>>)
        ELSE NoneV
  IN IF HasTerm({tGREATER, tGT, tEXCEEDS}) THEN StrV(<<tGREATER>>)
     ELSE IF HasTerm({tLESS, tLT, tBELOW}) THEN StrV(<<tLESS>>)
     ELSE IF HasTerm({tEQUAL, tEQ}) THEN StrV(<<tEQUAL>>)
     ELSE IF NumberedIn(result, {tNUM1, tNUMBER1}, {tNUM2, tNUMBER2})
          THEN Numbered(tGREATER, tLESS)
     ELSE IF NumberedIn(result, {tNUM2, tNUMBER2}, {tNUM1, tNUMBER1})
          THEN Numbered(tLESS, tGREATER)
     ELSE NoneV

\* [status, value, by]: by is the extractor whose result was normalised (0: none)
parse_comparison_result(response) ==
  LET clean_response == Strip(response)
      r1 == extract_from_boxed_format(clean_response)
      r2 == extract_from_explicit_statement(clean_response)
      r3 == extract_from_final_sentence(clean_response)
      r4 == extract_from_comparison_symbols(clean_response)
      by == IF r1 # <<>> THEN 1 ELSE IF r2 # <<>> THEN 2 ELSE IF r3 # <<>> THEN 3
            ELSE IF r4 # <<>> THEN 4 ELSE 0
      extracted_result == <<r1, r2, r3, r4, <<>> >>[IF by = 0 THEN 5 ELSE by]
  IN [status |-> "returned",
      value |-> IF by = 0 THEN NoneV ELSE normalize_comparison_result(extracted_result),
      by |-> by]

(***************************************************************************)
(* sorting_parsing.py and SortingTask.evaluate_response                    *)
(* (tasks/sorting_task.py).  A list value holds its elements in s: int     *)
(* values, and None for an element that is itself a list.  The responses   *)
(* are made of tBOX, "}", "[", "]", ", ", "-" and digits: the expressions  *)
(* with parentheses, backquotes, "\text", "\[", "\{", "matrix" or words    *)
(* match no lexeme.                                                        *)
(***************************************************************************)
ListV(items) == [k |-> "list", m |-> 0, e |-> 0, s |-> items]

\* if cleaned_list
Truthy(v) == v.k = "list" /\ v.s # <<>>

RECURSIVE JsonArray(_, _)
RECURSIVE JsonItems(_, _, _)
\* json.loads of the array that opens at index i: <<the first index after it,
\* its elements>>, <<0, <<>>>> if the text is no array there.  An element is an
\* int or an array; the list comprehension turns an array into None.
JsonArray(s, i) ==
  IF i + 1 > Len(s) \/ s[i] # tLSQ THEN <<0, <<>>>>
  ELSE IF s[i + 1] = tRSQ THEN <<i + 2, <<>>>>
  ELSE JsonItems(s, i + 1, <<>>)

\* the elements from index j on, after the elements acc
JsonItems(s, j, acc) ==
  LET Closed(k, item) ==
        IF k = 0 \/ k > Len(s) THEN <<0, <<>>>>
        ELSE IF s[k] = tRSQ THEN <<k + 1, Append(acc, item)>>
        ELSE IF s[k] \in {tCOMMA, tCM} THEN JsonItems(s, k + 1, Append(acc, item))
        ELSE <<0, <<>>>>
      Element(k) == Closed(k, IF k = 0 THEN NoneV ELSE PyNumber(Slice(s, j, k - 1)))
  IN IF j <= Len(s) /\ s[j] = tLSQ THEN Closed(JsonArray(s, j)[1], NoneV)
     ELSE Element(IntEnd(s, j))

RECURSIVE SubLatexCommands(_)
\* re.sub(r'\\[a-zA-Z]+(?:{[^{}]*})?', ''): "\boxed" goes with the braces
\* that follow it when they close, and leaves "{" when they do not
SubLatexCommands(s) ==
  IF s = <<>> THEN <<>>
  ELSE IF BoxClose(s, 1) # 0 THEN SubLatexCommands(Slice(s, BoxClose(s, 1) + 1, Len(s)))
  ELSE IF Head(s) = tBOX THEN <<tLB>> \o SubLatexCommands(Tail(s))
  ELSE <<Head(s)>> \o SubLatexCommands(Tail(s))

RECURSIVE SplitParts(_, _)
\* re.split(r'[,\s]+', text), the parts that are not empty
SplitParts(s, i) ==
  LET Part(b) == <<Slice(s, i, b - 1)>> \o SplitParts(s, b)
  IN IF i > Len(s) THEN <<>>
     ELSE IF s[i] \in {tCOMMA, tCM} THEN SplitParts(s, i + 1)
     ELSE Part(NextAt(s, i, {tCOMMA, tCM}))

\* a comparison of the lists as they stand, without sorted()
Unsorted(q) == q

RECURSIVE sorted(_)
\* sorted(q) of a list of ints
sorted(q) ==
  IF q = <<>> THEN <<>>
  ELSE LET i == CHOOSE i \in 1..Len(q) : \A j \in 1..Len(q) : q[i] <= q[j]
       IN <<q[i]>> \o sorted(Slice(q, 1, i - 1) \o Slice(q, i + 1, Len(q)))

\* parse_number_list of a str: the JSON array, else the parts between commas
\* when int(float(part)) reads every one of them, else every number of the text
sort_parse_number_list(text) ==
  IF text = <<>> THEN NoneV
  ELSE LET Ints(ns) ==
             [i \in 1..Len(ns) |->
               IF IndexesFrom(ns[i], 1, tDOT) = <<>> THEN IntOfFloat(ns[i])
               ELSE Trunc(PyFloat(ns[i]))]
           Numbers(ns) == IF ns # <<>> THEN ListV(Ints(ns)) ELSE NoneV
           Parts(t, parts) ==
             IF parts # <<>> /\ \A i \in 1..Len(parts) : IntEnd(parts[i], 1) = Len(parts[i]) + 1
             THEN ListV(Ints(parts))
             ELSE Numbers(AllNumFrom(t, 1))
           Split(t) == Parts(t, SplitParts(t, 1))
           Json(t, array) ==
             IF array[1] = Len(t) + 1 THEN ListV(array[2]) ELSE Split(SubLatexCommands(t))
           Stripped(t) ==
             Json(t, IF t[1] = tLSQ /\ Last(t) = tRSQ THEN JsonArray(t, 1) ELSE <<0, <<>>>>)
       IN Stripped(IF Last(text) = tCOMMA
                   THEN Slice(text, 1, Len(text) - 1) \o <<tCM>> ELSE text)

RECURSIVE LastList(_, _)
\* for match in reversed(matches): the first parse_number_list(match) that is
\* not empty, None if there is none
LastList(matches, n) ==
  IF n = 0 THEN NoneV
  ELSE IF Truthy(sort_parse_number_list(matches[n])) THEN sort_parse_number_list(matches[n])
  ELSE LastList(matches, n - 1)

\* \\boxed{([^{}]+)}; the nested pattern captures what this one has captured
sort_extract_from_boxed_format(text) ==
  LET Of(matches) == LastList(matches, Len(matches))
  IN Of(SelectSeq(BoxedFrom(text, 1), NotEmpty))

RECURSIVE BracketSpans(_, _)
\* re.findall(r'\[([^\[\]]+)\]', text)
BracketSpans(s, i) ==
  LET a == NextAt(s, i, {tLSQ})
      b == NextAt(s, a + 1, {tLSQ, tRSQ})
  IN IF b > Len(s) THEN <<>>
     ELSE IF s[b] = tLSQ \/ b = a + 1 THEN BracketSpans(s, a + 1)
     ELSE <<Slice(s, a + 1, b - 1)>> \o BracketSpans(s, b + 1)

extract_from_list_formats(text) ==
  LET Of(matches) == LastList(matches, Len(matches))
  IN Of(BracketSpans(text, 1))

RECURSIVE CommaListEnd(_, _)
\* (?:,\s*-?\d+)* from index k: the first index after the match
CommaListEnd(s, k) ==
  IF k <= Len(s) /\ s[k] \in {tCOMMA, tCM} /\ IntEnd(s, k + 1) # 0
  THEN CommaListEnd(s, IntEnd(s, k + 1))
  ELSE k

RECURSIVE CommaListAt(_, _)
\* (?:^|\s)(-?\d+(?:,\s*-?\d+)+): the start of the leftmost match from i on, 0
\* if none; a blank stands only at the end of ", "
CommaListAt(s, i) ==
  IF i > Len(s) THEN 0
  ELSE IF (i = 1 \/ s[i - 1] = tCOMMA) /\ IntEnd(s, i) # 0
            /\ CommaListEnd(s, IntEnd(s, i)) > IntEnd(s, i)
       THEN i
  ELSE CommaListAt(s, i + 1)

\* the text has one line.  The bracket pattern finds what extract_from_list_formats
\* has tried; the first list of numbers between commas is read as it stands
extract_from_final_line(text) ==
  LET Listed(line, i) ==
        IF i = 0 THEN NoneV
        ELSE sort_parse_number_list(Slice(line, i, CommaListEnd(line, IntEnd(line, i)) - 1))
      Line(line) == Listed(line, CommaListAt(line, 1))
  IN IF text = <<>> THEN NoneV
     ELSE Line(IF Last(text) = tCOMMA THEN Slice(text, 1, Len(text) - 1) \o <<tCM>> ELSE text)

\* the chain of "or"; extract_from_explicit_statements and extract_from_code_blocks
\* find nothing in these responses
parse_sorted_list(response) ==
  LET Lists(c, rest) == IF Truthy(c) THEN c ELSE rest
  IN Lists(sort_extract_from_boxed_format(response),
           Lists(extract_from_list_formats(response), extract_from_final_line(response)))

\* the lists generate_data draws: random.sample gives distinct numbers
SortingInputs == {<<3, 2>>, <<2, 3, 5>>, <<5, 3, 2>>}

\* accuracy = 1 if sorted(boxed_answer) == ground_truth; sorted raises TypeError
\* on a list that holds None beside an int, and the except clause gives 0.  A
\* list that holds an int of more than ExactDigits digits is no list of the task
SortingTask_evaluate_response(response, data_point) ==
  LET Of(boxed_answer) ==
        [status |-> "returned", flag |-> boxed_answer # NoneV, value |-> boxed_answer,
         by |-> 0,
         accuracy |-> IF /\ boxed_answer # NoneV
                         /\ \A i \in 1..Len(boxed_answer.s) :
                              boxed_answer.s[i].k = "int" /\ boxed_answer.s[i].s = <<>>
                         /\ sorted([i \in 1..Len(boxed_answer.s) |-> boxed_answer.s[i].m])
                              = sorted(data_point)
                      THEN 1 ELSE 0,
         ground_truth |-> sorted(data_point), numbers |-> data_point]
  IN Of(parse_sorted_list(response))

(***************************************************************************)
(* Mode parsing.  The texts of this section are written letter by letter   *)
(* where the patterns read blanks: "4, 2" is "4", ",", " ", "2" and        *)
(* "4 and 2" is "4", " ", "and", " ", "2".                                  *)
(***************************************************************************)
tSP == " "
tSEMI == ";"
tANDW == "and"
tORW == "or"
tMBOX == "boxed{"

RECURSIVE BlanksEnd(_, _)
\* \s* from index i: the first index after the blanks
BlanksEnd(s, i) == IF i <= Len(s) /\ s[i] = tSP THEN BlanksEnd(s, i + 1) ELSE i

RECURSIVE SubWord(_, _, _)
\* re.sub(r'\s+and\s+', ', ', text) and the same of "or", from index i on
SubWord(s, i, word) ==
  LET At(j, k) ==
        IF j > i /\ j <= Len(s) /\ s[j] = word /\ k > j + 1
        THEN <<tCM, tSP>> \o SubWord(s, k, word)
        ELSE <<s[i]>> \o SubWord(s, i + 1, word)
  IN IF i > Len(s) THEN <<>>
     ELSE At(BlanksEnd(s, i), BlanksEnd(s, BlanksEnd(s, i) + 1))

RECURSIVE SubNumbers(_, _, _)
\* re.sub(r'(\d+)\s+and\s+(\d+)', r'\1, \2', text) and the same of "or", from
\* index i on
SubNumbers(s, i, word) ==
  LET Between(a, j, k) ==
        IF a > i /\ j > a /\ j <= Len(s) /\ s[j] = word /\ k > j + 1 /\ DigitsEnd(s, k) > k
        THEN Slice(s, i, a - 1) \o <<tCM, tSP>> \o Slice(s, k, DigitsEnd(s, k) - 1)
               \o SubNumbers(s, DigitsEnd(s, k), word)
        ELSE <<s[i]>> \o SubNumbers(s, i + 1, word)
      Blanks(a, j) == Between(a, j, BlanksEnd(s, j + 1))
      Number(a) == Blanks(a, BlanksEnd(s, a))
  IN IF i > Len(s) THEN <<>>
     ELSE Number(DigitsEnd(s, i))

\* re.sub(r'[;|]', ',', text)
SubDelimiters(s) == [i \in 1..Len(s) |-> IF s[i] = tSEMI THEN tCM ELSE s[i]]

RECURSIVE SplitComma(_, _)
\* text.split(','), from index i on
SplitComma(s, i) ==
  LET Item(b) ==
        <<Slice(s, i, b - 1)>> \o (IF b > Len(s) THEN <<>> ELSE SplitComma(s, b + 1))
  IN Item(NextAt(s, i, {tCM}))

\* re.search(r'(-?\d+)', item) and int() of its group: <<the int>>, <<>> if
\* the item holds no digit
ItemInt(item) ==
  LET Of(d) ==
        IF d > Len(item) THEN <<>>
        ELSE IF d > 1 /\ item[d - 1] = tNEG
             THEN <<-DigitsValue(Slice(item, d, DigitsEnd(item, d) - 1), 0)>>
        ELSE <<DigitsValue(Slice(item, d, DigitsEnd(item, d) - 1), 0)>>
  IN Of(NextAt(item, 1, Digits \cup {"1", "0"}))

RECURSIVE ItemInts(_)
\* items: the int of every item that holds one
ItemInts(parts) ==
  IF parts = <<>> THEN <<>> ELSE ItemInt(Head(parts)) \o ItemInts(Tail(parts))

\* a list that keeps every item
EveryItem(items, seen) == items

RECURSIVE unique_items(_, _)
\* unique_items: the items not seen before, in their order
unique_items(items, seen) ==
  IF items = <<>> THEN <<>>
  ELSE IF Head(items) \in seen THEN unique_items(Tail(items), seen)
  ELSE <<Head(items)>> \o unique_items(Tail(items), seen \cup {Head(items)})

parse_modes_from_text(text) ==
  LET Of(items) == ListV([i \in 1..Len(items) |-> IntV(items[i])])
      Cleaned(t) == Of(unique_items(ItemInts(SplitComma(SubDelimiters(t), 1)), {}))
  IN IF text = <<>> THEN ListV(<<>>)
     ELSE Cleaned(SubNumbers(SubNumbers(SubWord(SubWord(text, 1, tANDW), 1, tORW),
                                        1, tANDW), 1, tORW))

RECURSIVE StripBlanks(_)
\* str.strip() of a text whose whitespace is blanks
StripBlanks(s) ==
  IF s = <<>> THEN s
  ELSE IF Head(s) = tSP THEN StripBlanks(Tail(s))
  ELSE IF Last(s) = tSP THEN StripBlanks(Slice(s, 1, Len(s) - 1))
  ELSE s

RECURSIVE StandardBoxed(_, _)
\* re.search(r'\\boxed\{([^{}]*)\}', text): <<group 1>> of the leftmost match
\* from i on, <<>> if none
StandardBoxed(s, i) ==
  LET Of(c) ==
        IF s[i] = tBOX /\ c <= Len(s) /\ s[c] = tRB THEN <<Slice(s, i + 1, c - 1)>>
        ELSE StandardBoxed(s, i + 1)
  IN IF i > Len(s) THEN <<>>
     ELSE Of(NextAt(s, i + 1, {tBOX, tMBOX, tLB, tRB}))

RECURSIVE MarkdownBoxed(_, _)
\* re.search(r'\[boxed\{([^{}]*)\}\]', text): <<group 1>> or <<>>
MarkdownBoxed(s, i) ==
  LET Of(c) ==
        IF s[i] = tLSQ /\ s[i + 1] = tMBOX /\ c < Len(s) /\ s[c] = tRB /\ s[c + 1] = tRSQ
        THEN <<Slice(s, i + 2, c - 1)>>
        ELSE MarkdownBoxed(s, i + 1)
  IN IF i >= Len(s) THEN <<>>
     ELSE Of(NextAt(s, i + 2, {tBOX, tMBOX, tLB, tRB}))

\* match = standard_boxed or paren_boxed or bracket_boxed or markdown_boxed.  A
\* match of paren_boxed or bracket_boxed holds one of standard_boxed, so that
\* neither is the match
mode_extract_from_boxed_formats(text) ==
  LET Of(match) ==
        IF match # <<>> THEN parse_modes_from_text(StripBlanks(match[1])) ELSE NoneV
      Standard(found) ==
        Of(IF found # <<>> THEN found ELSE MarkdownBoxed(text, 1))
  IN Standard(StandardBoxed(text, 1))

(***************************************************************************)
(* The scalar parsers as a state machine: a response is written piece by   *)
(* piece, then one parser is called on it with one of the prompts.         *)
(***************************************************************************)
VARIABLES response, writes, pc, fn, prompt, result

\* The state of an evaluation: the ModelHandler (backend, and the loads its
\* construction tried), the task's data and the locals of run_fold and of
\* generate_response_with_retry, the calls of the backend and of time.sleep
\* that the current call of generate_response_with_retry made and the value it
\* returned, and the locals of DivisionTask.generate_data; sample is the
\* number of data points that run_fold has taken from data
VARIABLES backend, tried, kind, data, sample, at, fold_prompt, retry_prompt, attempt,
          retry_count, last_error, calls, sleeps, returned, consecutive_failures,
          fold_results, metrics, min_val, max_val, numerator, denominator

evaluation ==
  <<backend, tried, kind, data, sample, at, fold_prompt, retry_prompt, attempt,
    retry_count, last_error, calls, sleeps, returned, consecutive_failures,
    fold_results, metrics, min_val, max_val, numerator, denominator>>

parsing == <<response, writes, pc, fn, prompt, result>>

vars == <<parsing, evaluation>>

\* self.create_prompt(data_point) in run_fold, and the response of the backend to a prompt
PromptFor(data_point) == [text |-> "prompt", of |-> data_point]

NoPrompt == [text |-> "", of |-> 0]

ResponseTo(sent) == [text |-> "response", to |-> sent]

EmptyResponse == [text |-> "", to |-> NoPrompt]

NotReturned ==
  [response |-> EmptyResponse, tokens |-> 0, success |-> FALSE,
   metadata |-> [attempt |-> 0, backend |-> "None", retry_count |-> 0, final_error |-> "None"],
   status |-> "none"]

NoMetrics == [total_samples_attempted |-> 0, total_samples_completed |-> 0]

\* no ModelHandler, no fold and no generate_data is under way
NoEvaluation ==
  /\ backend = "None"
  /\ tried = <<>>
  /\ kind = "dict"
  /\ data = <<>>
  /\ sample = 0
  /\ at = "idle"
  /\ fold_prompt = NoPrompt
  /\ retry_prompt = NoPrompt
  /\ attempt = 0
  /\ retry_count = 0
  /\ last_error = "None"
  /\ calls = 0
  /\ sleeps = <<>>
  /\ returned = NotReturned
  /\ consecutive_failures = 0
  /\ fold_results = <<>>
  /\ metrics = NoMetrics
  /\ min_val = 0
  /\ max_val = 0
  /\ numerator = 0
  /\ denominator = 0

MaxWrites == 3

Alphabet == Digits \cup {tBOX, tRB, tANS, tBOLD, tINF, tNEG, tDOT, tEQ, tDOL, tTICK, tE}

\* what one write appends: a lexeme, a boxed digit, the head of a subtraction,
\* or the head of an assignment in a code span
Pieces ==
  {<<t>> : t \in Alphabet} \cup {<<tBOX, d, tRB>> : d \in Digits}
    \cup {<<"2", tNEG, "3", tEQ>>, <<tTICK, tE, tEQ>>}

Prompts ==
  { <<>>,
    <<tFIND, tLSQ, "2", tCOMMA, "5", tRSQ>>,
    <<tLSQ, tNEG, "2", tCOMMA, tNEG, "3", tRSQ>> }

InitScalar ==
  /\ response = <<>>
  /\ writes = 0
  /\ pc = "write"
  /\ fn = "none"
  /\ prompt = <<>>
  /\ result = NoResult
  /\ NoEvaluation

Write ==
  /\ pc = "write"
  /\ writes < MaxWrites
  /\ \E piece \in Pieces : response' = response \o piece
  /\ writes' = writes + 1
  /\ UNCHANGED <<pc, fn, prompt, result>>

ParseAbsoluteDifference ==
  /\ pc = "write"
  /\ \E p \in Prompts :
       /\ prompt' = p
       /\ result' = parse_absolute_difference_answer(response, p)
  /\ fn' = "parse_absolute_difference_answer"
  /\ pc' = "done"
  /\ UNCHANGED <<response, writes>>

ParseMultiplication ==
  /\ pc = "write"
  /\ \E p \in Prompts :
       /\ prompt' = p
       /\ result' = parse_multiplication_answer(response, p)
  /\ fn' = "parse_multiplication_answer"
  /\ pc' = "done"
  /\ UNCHANGED <<response, writes>>

ParseSubtraction ==
  /\ pc = "write"
  /\ \E p \in Prompts :
       /\ prompt' = p
       /\ result' = parse_subtraction_answer(response, p)
  /\ fn' = "parse_subtraction_answer"
  /\ pc' = "done"
  /\ UNCHANGED <<response, writes>>

NextScalar ==
  \/ (Write /\ UNCHANGED evaluation)
  \/ (ParseAbsoluteDifference /\ UNCHANGED evaluation)
  \/ (ParseMultiplication /\ UNCHANGED evaluation)
  \/ (ParseSubtraction /\ UNCHANGED evaluation)

SpecScalar == InitScalar /\ [][NextScalar]_vars

(***************************************************************************)
(* The adapters without echo filter as a state machine: a response is      *)
(* written piece by piece and then handed to one of them.                  *)
(***************************************************************************)
TextAlphabet == Digits \cup {tBOX, tRB, tANS, tNEG, tDOT, tEQ, tDOL, tINF, tGT, tE}

TextPieces == {<<t>> : t \in TextAlphabet} \cup {<<tBOX, d, tRB>> : d \in Digits}
              \cup {<<tBOX, tNEG, tRB>>, <<"2", tGT, "3", tDOT>>, <<tDOT, "5">>}

\* data_point['input_list'] of the mean task
InputLists == {<<5>>, <<2, 3>>}

WriteText ==
  /\ pc = "write"
  /\ writes < MaxWrites
  /\ \E piece \in TextPieces : response' = response \o piece
  /\ writes' = writes + 1
  /\ UNCHANGED <<pc, fn, prompt, result>>

ParseSum ==
  /\ pc = "write"
  /\ result' = parse_sum_answer(response)
  /\ fn' = "parse_sum_answer"
  /\ pc' = "done"
  /\ UNCHANGED <<response, writes, prompt>>

ParseOddCount ==
  /\ pc = "write"
  /\ result' = parse_odd_count_answer(response)
  /\ fn' = "parse_odd_count_answer"
  /\ pc' = "done"
  /\ UNCHANGED <<response, writes, prompt>>

ParseComparison ==
  /\ pc = "write"
  /\ result' = parse_comparison_result(response)
  /\ fn' = "parse_comparison_result"
  /\ pc' = "done"
  /\ UNCHANGED <<response, writes, prompt>>

EvaluateMean ==
  /\ pc = "write"
  /\ \E input_list \in InputLists : result' = evaluate_response(response, input_list)
  /\ fn' = "MeanTask.evaluate_response"
  /\ pc' = "done"
  /\ UNCHANGED <<response, writes, prompt>>

NextAdapters ==
  \/ (WriteText /\ UNCHANGED evaluation)
  \/ (ParseSum /\ UNCHANGED evaluation)
  \/ (ParseOddCount /\ UNCHANGED evaluation)
  \/ (ParseComparison /\ UNCHANGED evaluation)
  \/ (EvaluateMean /\ UNCHANGED evaluation)

SpecAdapters == InitScalar /\ [][NextAdapters]_vars

(***************************************************************************)
(* The echo filter on its own: a candidate is written lexeme by lexeme and *)
(* handed to is_input_number, as the text or as the number it spells, with *)
(* the operands of a prompt.                                               *)
(***************************************************************************)
NumberAlphabet == Digits \cup {tNEG, tDOT, tINF, tE}

IsLiteral(x) == x # <<>> /\ SciEnd(x, 1) = Len(x) + 1

WriteNumber ==
  /\ pc = "write"
  /\ writes < MaxWrites
  /\ \E t \in NumberAlphabet : response' = Append(response, t)
  /\ writes' = writes + 1
  /\ UNCHANGED <<pc, fn, prompt, result>>

\* result: value is the candidate, flag what is_input_number returned
IsInputNumber ==
  /\ pc = "write"
  /\ \E p \in Prompts, as_text \in BOOLEAN :
       LET number == IF as_text THEN StrV(response) ELSE PyNumber(response)
           r == is_input_number(number, extract_input_numbers_from_prompt(p))
       IN /\ as_text \/ IsLiteral(response)
          /\ prompt' = p
          /\ result' = [status |-> IF r = "OverflowError" THEN r ELSE "returned",
                        flag |-> r = "True", value |-> number, by |-> 0]
  /\ fn' = "is_input_number"
  /\ pc' = "done"
  /\ UNCHANGED <<response, writes>>

NextEcho ==
  \/ (WriteNumber /\ UNCHANGED evaluation)
  \/ (IsInputNumber /\ UNCHANGED evaluation)

SpecEcho == InitScalar /\ [][NextEcho]_vars

(***************************************************************************)
(* tasks/absolute_difference_task.py, subtraction_task.py and              *)
(* multiplication_task.py: evaluate_response grades a response against the *)
(* data point the prompt was made of.  The parser is called with the       *)
(* response alone.                                                         *)
(***************************************************************************)
\* the pairs generate_data draws
DataPoints == {<<2, 5>>, <<-2, -3>>, <<3, 5>>}

\* for the multiplication task also a pair whose product is a digit of the
\* responses
ProductDataPoints == DataPoints \cup {<<1, 2>>}

\* str(n) of a one-digit int
IntText(n) ==
  IF n < 0 THEN <<tNEG, DigitText(-n)>> ELSE <<DigitText(n)>>

\* the prompt of the list tasks: a sentence and str(data_point)
create_prompt(data_point) ==
  <<tFIND, tLSQ>> \o IntText(data_point[1]) \o <<tCOMMA>> \o IntText(data_point[2])
    \o <<tRSQ>>

\* "Can you subtract a from b and provide ...": the numbers stand in no list
sub_create_prompt(data_point) ==
  <<"Can you subtract ">> \o IntText(data_point[1]) \o <<" from ">>
    \o IntText(data_point[2])

\* the dict evaluate_response returns: accuracy = 1 iff ground_truth == answer
Graded(parsed, answer, data_point, ground_truth) ==
  [status |-> parsed.status, flag |-> parsed.flag, value |-> answer, by |-> parsed.by,
   accuracy |-> IF IsNum(answer) /\ NumEq(answer, IntV(ground_truth)) THEN 1 ELSE 0,
   ground_truth |-> ground_truth, numbers |-> data_point]

AbsoluteDifferenceTask_evaluate_response(s, data_point) ==
  LET Of(parsed) ==
        Graded(parsed, parsed.value, data_point, Abs(data_point[2] - data_point[1]))
  IN Of(parse_absolute_difference_answer(s, <<>>))

SubtractionTask_evaluate_response(s, data_point) ==
  LET Of(parsed) == Graded(parsed, parsed.value, data_point, data_point[2] - data_point[1])
  IN Of(parse_subtraction_answer(s, <<>>))

\* if parsed_answer: parsed_answer = int(float(parsed_answer)), which raises
\* OverflowError for an infinite value
MultiplicationTask_evaluate_response(s, data_point) ==
  LET Converted(parsed, v) ==
        IF v.k = "none" \/ (IsNum(v) /\ ~IsInf(v) /\ v.m = 0)
        THEN Graded(parsed, v, data_point, data_point[1] * data_point[2])
        ELSE IF IsInf(v) \/ (v.k = "str" /\ IsInf(PyFloat(v.s)))
        THEN [Graded(parsed, v, data_point, data_point[1] * data_point[2])
                EXCEPT !.status = "OverflowError"]
        ELSE Graded(parsed, Trunc(IF v.k = "str" THEN PyFloat(v.s) ELSE v),
                    data_point, data_point[1] * data_point[2])
      Of(parsed) == Converted(parsed, parsed.value)
  IN Of(parse_multiplication_answer(s, <<>>))

(***************************************************************************)
(* The three tasks with operands in their prompt as a state machine: a     *)
(* response is written piece by piece and graded against a data point.     *)
(***************************************************************************)
EvaluateAbsoluteDifference ==
  /\ pc = "write"
  /\ \E data_point \in DataPoints :
       /\ prompt' = create_prompt(data_point)
       /\ result' = AbsoluteDifferenceTask_evaluate_response(response, data_point)
  /\ fn' = "AbsoluteDifferenceTask.evaluate_response"
  /\ pc' = "done"
  /\ UNCHANGED <<response, writes>>

EvaluateSubtraction ==
  /\ pc = "write"
  /\ \E data_point \in DataPoints :
       /\ prompt' = sub_create_prompt(data_point)
       /\ result' = SubtractionTask_evaluate_response(response, data_point)
  /\ fn' = "SubtractionTask.evaluate_response"
  /\ pc' = "done"
  /\ UNCHANGED <<response, writes>>

EvaluateMultiplication ==
  /\ pc = "write"
  /\ \E data_point \in ProductDataPoints :
       /\ prompt' = create_prompt(data_point)
       /\ result' = MultiplicationTask_evaluate_response(response, data_point)
  /\ fn' = "MultiplicationTask.evaluate_response"
  /\ pc' = "done"
  /\ UNCHANGED <<response, writes>>

NextTasks ==
  \/ (Write /\ UNCHANGED evaluation)
  \/ (EvaluateAbsoluteDifference /\ UNCHANGED evaluation)
  \/ (EvaluateSubtraction /\ UNCHANGED evaluation)
  \/ (EvaluateMultiplication /\ UNCHANGED evaluation)

SpecTasks == InitScalar /\ [][NextTasks]_vars

(***************************************************************************)
(* The coercion of the scalar adapters as a state machine: a fragment is   *)
(* written piece by piece and handed to clean_and_convert_to_number of one *)
(* adapter.                                                                *)
(***************************************************************************)
CoercionPieces ==
  {<<d>> : d \in Digits}
    \cup {<<tDOT>>, <<tE>>, <<tNEG>>, <<tEQ>>, <<tCM>>, <<tDIV>>, <<tRB>>}
    \cup {<<sign, "1", "0", tHAT>> : sign \in {tX, tMUL, tTIMESW, tLTIMES}}
    \cup {<<tLTIMES, "1", "0", tHAT, tLB>>, <<"2", tDOT, "5">>, <<tE, "3">>,
          <<"5", tNEG, "3", tEQ>>, <<"5", tDIV, "2", tEQ>>, <<"5", tMUL, "2", tEQ>>,
          <<tCM, "3">>, <<tCM, "3", "5", "2">>, <<"3", tRB>>}

WriteFragment ==
  /\ pc = "write"
  /\ writes < MaxWrites
  /\ \E piece \in CoercionPieces : response' = response \o piece
  /\ writes' = writes + 1
  /\ UNCHANGED <<pc, fn, prompt, result>>

CoerceAbsoluteDifference ==
  /\ pc = "write"
  /\ result' = Returned(FALSE, clean_and_convert_to_number(response), 0)
  /\ fn' = "absolute_difference_parsing.clean_and_convert_to_number"
  /\ pc' = "done"
  /\ UNCHANGED <<response, writes, prompt>>

CoerceMultiplication ==
  /\ pc = "write"
  /\ result' = Returned(FALSE, mul_clean_and_convert_to_number(response), 0)
  /\ fn' = "multiplication_parsing.clean_and_convert_to_number"
  /\ pc' = "done"
  /\ UNCHANGED <<response, writes, prompt>>

CoerceSubtraction ==
  /\ pc = "write"
  /\ result' = Returned(FALSE, sub_clean_and_convert_to_number(response), 0)
  /\ fn' = "subtraction_parsing.clean_and_convert_to_number"
  /\ pc' = "done"
  /\ UNCHANGED <<response, writes, prompt>>

CoerceSum ==
  /\ pc = "write"
  /\ result' = Returned(FALSE, sum_clean_and_convert_to_number(response), 0)
  /\ fn' = "sum_parsing.clean_and_convert_to_number"
  /\ pc' = "done"
  /\ UNCHANGED <<response, writes, prompt>>

CoerceFindMaximum ==
  /\ pc = "write"
  /\ result' = Returned(FALSE, max_clean_and_convert_to_number(response), 0)
  /\ fn' = "find_maximum_parsing.clean_and_convert_to_number"
  /\ pc' = "done"
  /\ UNCHANGED <<response, writes, prompt>>

NextCoercion ==
  \/ (WriteFragment /\ UNCHANGED evaluation)
  \/ (CoerceAbsoluteDifference /\ UNCHANGED evaluation)
  \/ (CoerceMultiplication /\ UNCHANGED evaluation)
  \/ (CoerceSubtraction /\ UNCHANGED evaluation)
  \/ (CoerceSum /\ UNCHANGED evaluation)
  \/ (CoerceFindMaximum /\ UNCHANGED evaluation)

SpecCoercion == InitScalar /\ [][NextCoercion]_vars

(***************************************************************************)
(* The sorting task as a state machine: a response is written piece by     *)
(* piece, then parsed or graded against an input list.                     *)
(***************************************************************************)
\* 10^16 + 1, an int above 2^53
LongLiteral ==
  <<"1", "0", "0", "0", "0", "0", "0", "0", "0", "0", "0", "0", "0", "0", "0", "0", "1">>

\* "a, b" and, of distinct digits, "a, b, c"
ListBodies ==
  {<<a, tCOMMA, b>> : a, b \in Digits}
    \cup {body \in {<<a, tCOMMA, b, tCOMMA, c>> : a, b, c \in Digits} :
            \A i, j \in {1, 3, 5} : body[i] = body[j] => i = j}

ListPieces ==
  {<<d>> : d \in Digits} \cup {<<tBOX>>, <<tRB>>, <<tLSQ>>, <<tRSQ>>, <<tCOMMA>>, <<tNEG>>}
    \cup {<<tBOX, tLSQ>>, <<tRSQ, tRB>>, <<tLSQ, tLSQ, "2", tRSQ, tCOMMA, "3", tRSQ>>,
          <<tNEG, "3", tCOMMA, "2">>, <<tBOX, tLSQ>> \o LongLiteral \o <<tRSQ, tRB>>}
    \cup ListBodies

WriteList ==
  /\ pc = "write"
  /\ writes < MaxWrites
  /\ \E piece \in ListPieces : response' = response \o piece
  /\ writes' = writes + 1
  /\ UNCHANGED <<pc, fn, prompt, result>>

ParseSortedList ==
  /\ pc = "write"
  /\ result' = Returned(FALSE, parse_sorted_list(response), 0)
  /\ fn' = "parse_sorted_list"
  /\ pc' = "done"
  /\ UNCHANGED <<response, writes, prompt>>

EvaluateSorting ==
  /\ pc = "write"
  /\ \E data_point \in SortingInputs :
       result' = SortingTask_evaluate_response(response, data_point)
  /\ fn' = "SortingTask.evaluate_response"
  /\ pc' = "done"
  /\ UNCHANGED <<response, writes, prompt>>

NextSorting ==
  \/ (WriteList /\ UNCHANGED evaluation)
  \/ (ParseSortedList /\ UNCHANGED evaluation)
  \/ (EvaluateSorting /\ UNCHANGED evaluation)

SpecSorting == InitScalar /\ [][NextSorting]_vars

(***************************************************************************)
(* parse_modes_from_text on fragments and extract_from_boxed_formats of    *)
(* mode_parsing on responses.                                              *)
(***************************************************************************)
ModeDigits == {"2", "5"}

\* ", ", " and ", " or "
ModeJoiners == {<<tCM, tSP>>, <<tSP, tANDW, tSP>>, <<tSP, tORW, tSP>>}

ModePieces ==
  {<<t>> : t \in Digits \cup {tNEG, tCM, tSEMI, tSP, tANDW, tORW, tBOX, tRB, tRSQ}}
    \cup {<<tLSQ, tMBOX>>}
    \cup {<<a>> \o j \o <<b>> : a, b \in ModeDigits, j \in ModeJoiners}
    \cup {j \o <<a>> : a \in ModeDigits, j \in ModeJoiners}
    \cup {<<tBOX, "5", tCM, tSP, "5">>}

WriteModes ==
  /\ pc = "write"
  /\ writes < MaxWrites
  /\ \E piece \in ModePieces : response' = response \o piece
  /\ writes' = writes + 1
  /\ UNCHANGED <<pc, fn, prompt, result>>

ParseModesFromText ==
  /\ pc = "write"
  /\ result' = Returned(FALSE, parse_modes_from_text(response), 0)
  /\ fn' = "parse_modes_from_text"
  /\ pc' = "done"
  /\ UNCHANGED <<response, writes, prompt>>

ExtractModesFromBoxedFormats ==
  /\ pc = "write"
  /\ result' = Returned(FALSE, mode_extract_from_boxed_formats(response), 0)
  /\ fn' = "mode_parsing.extract_from_boxed_formats"
  /\ pc' = "done"
  /\ UNCHANGED <<response, writes, prompt>>

NextModes ==
  \/ (WriteModes /\ UNCHANGED evaluation)
  \/ (ParseModesFromText /\ UNCHANGED evaluation)
  \/ (ExtractModesFromBoxedFormats /\ UNCHANGED evaluation)

SpecModes == InitScalar /\ [][NextModes]_vars

(***************************************************************************)
(* A second call: after a parser has returned, it is called again with the *)
(* same response and the same prompt.                                      *)
(***************************************************************************)
\* pieces that the scalar parsers and the adapters both read
RepeatPieces ==
  {piece \in Pieces \cap TextPieces :
     piece \in {<<"2">>, <<"3">>, <<tBOX>>, <<tRB>>, <<tANS>>, <<tNEG>>, <<tEQ>>, <<tDOT>>,
                <<tBOX, "5", tRB>>}}

WriteRepeat ==
  /\ pc = "write"
  /\ writes < MaxWrites
  /\ \E piece \in RepeatPieces : response' = response \o piece
  /\ writes' = writes + 1
  /\ UNCHANGED <<pc, fn, prompt, result>>

\* a call that answers 0 once an earlier call has left a result
StaleCall(f, r, p) ==
  Returned(FALSE, IF result.status = "none" THEN NoneV ELSE IntV(0), 0)

\* the parsers that are called twice: two that take a prompt and the adapters
Extractors ==
  {"parse_absolute_difference_answer", "parse_subtraction_answer", "parse_sum_answer",
   "parse_odd_count_answer", "parse_comparison_result"}

\* the call f(r, p) of the parser named f; an adapter takes no prompt
Extractor(f, r, p) ==
  CASE f = "parse_absolute_difference_answer" -> parse_absolute_difference_answer(r, p)
    [] f = "parse_subtraction_answer" -> parse_subtraction_answer(r, p)
    [] f = "parse_sum_answer" -> parse_sum_answer(r)
    [] f = "parse_odd_count_answer" -> parse_odd_count_answer(r)
    [] f = "parse_comparison_result" -> parse_comparison_result(r)

\* a call of a parser: the first with any prompt, the second with the
\* function, the response and the prompt of the first
Call ==
  /\ pc \in {"write", "done"}
  /\ \E f \in Extractors, p \in Prompts :
       /\ pc = "done" => (f = fn /\ p = prompt)
       /\ f \in {"parse_sum_answer", "parse_odd_count_answer", "parse_comparison_result"}
            => p = <<>>
       /\ result' = Extractor(f, response, p)
       /\ fn' = f
       /\ prompt' = p
  /\ pc' = IF pc = "write" THEN "done" ELSE "again"
  /\ UNCHANGED <<response, writes>>

NextRepeat ==
  \/ (WriteRepeat /\ UNCHANGED evaluation)
  \/ (Call /\ UNCHANGED evaluation)

SpecRepeat == InitScalar /\ [][NextRepeat]_vars

(***************************************************************************)
(* extract_from_boxed_formats of the scalar parsers on responses that hold *)
(* several boxes.                                                          *)
(***************************************************************************)
BoxPieces ==
  {<<tBOX, d, tRB>> : d \in Digits} \cup {<<tBOX, tNEG, d, tRB>> : d \in Digits}
    \cup {<<t>> : t \in {tBOX, tRB, tNEG, tANS, tDOL, "2", "3"}}

WriteBoxes ==
  /\ pc = "write"
  /\ writes < MaxWrites
  /\ \E piece \in BoxPieces : response' = response \o piece
  /\ writes' = writes + 1
  /\ UNCHANGED <<pc, fn, prompt, result>>

\* the pair (text, instruction_followed) as a result: the text is a str or None
BoxedResult(pair) ==
  Returned(pair[2], IF pair[1].k = "text" THEN StrV(pair[1].s) ELSE NoneV, 0)

ExtractAbsoluteDifferenceBoxes ==
  /\ pc = "write"
  /\ result' = BoxedResult(extract_from_boxed_formats(response))
  /\ fn' = "absolute_difference_parsing.extract_from_boxed_formats"
  /\ pc' = "done"
  /\ UNCHANGED <<response, writes, prompt>>

ExtractMultiplicationBoxes ==
  /\ pc = "write"
  /\ result' = BoxedResult(mul_extract_from_boxed_formats(response))
  /\ fn' = "multiplication_parsing.extract_from_boxed_formats"
  /\ pc' = "done"
  /\ UNCHANGED <<response, writes, prompt>>

ExtractSubtractionBoxes ==
  /\ pc = "write"
  /\ result' = BoxedResult(sub_extract_from_boxed_formats(response))
  /\ fn' = "subtraction_parsing.extract_from_boxed_formats"
  /\ pc' = "done"
  /\ UNCHANGED <<response, writes, prompt>>

NextBoxes ==
  \/ (WriteBoxes /\ UNCHANGED evaluation)
  \/ (ExtractAbsoluteDifferenceBoxes /\ UNCHANGED evaluation)
  \/ (ExtractMultiplicationBoxes /\ UNCHANGED evaluation)
  \/ (ExtractSubtractionBoxes /\ UNCHANGED evaluation)

SpecBoxes == InitScalar /\ [][NextBoxes]_vars

(***************************************************************************)
(* normalize_comparison_result on phrases about the two numbers.           *)
(***************************************************************************)
PhrasePieces ==
  {<<tNUMBER1>>, <<tNUMBER2>>, <<tNUMBER1, tISW>>, <<tNUMBER2, tISW>>, <<tGREATER>>,
   <<tLESS>>, <<tEQUAL>>, <<tEXCEEDS>>, <<tBELOW>>, <<tGT>>, <<tLT>>, <<tEQ>>, <<"3">>}

WritePhrase ==
  /\ pc = "write"
  /\ writes < MaxWrites
  /\ \E piece \in PhrasePieces : response' = response \o piece
  /\ writes' = writes + 1
  /\ UNCHANGED <<pc, fn, prompt, result>>

NormalizeComparisonResult ==
  /\ pc = "write"
  /\ result' = Returned(FALSE, normalize_comparison_result(Strip(response)), 0)
  /\ fn' = "normalize_comparison_result"
  /\ pc' = "done"
  /\ UNCHANGED <<response, writes, prompt>>

NextNormalize ==
  \/ (WritePhrase /\ UNCHANGED evaluation)
  \/ (NormalizeComparisonResult /\ UNCHANGED evaluation)

SpecNormalize == InitScalar /\ [][NextNormalize]_vars

(***************************************************************************)
(* parse_comparison_result on responses that label the two numbers, state  *)
(* relations between numbers in symbols and end sentences.                 *)
(***************************************************************************)
ComparedNumbers == {"3", "5"}

\* "Number 1:a, Number 2:b."
Labels(a, b) == <<tNUM1, a, tCOMMA, tNUM2, b, tDOT>>

ComparisonPieces ==
  {Labels(a, b) : a, b \in ComparedNumbers}
    \cup {<<c, symbol, d>> : c, d \in ComparedNumbers, symbol \in {tGT, tLT, tEQ}}
    \cup {<<tDOT>>, <<tDOT, "2", tDOT, "2">>, <<tANS>>, <<tBOX, tLT, tRB>>}

WriteComparison ==
  /\ pc = "write"
  /\ writes < MaxWrites
  /\ \E piece \in ComparisonPieces : response' = response \o piece
  /\ writes' = writes + 1
  /\ UNCHANGED <<pc, fn, prompt, result>>

NextComparison ==
  \/ (WriteComparison /\ UNCHANGED evaluation)
  \/ (ParseComparison /\ UNCHANGED evaluation)

SpecComparison == InitScalar /\ [][NextComparison]_vars

(***************************************************************************)
(* An evaluation as a state machine: a ModelHandler is constructed, and    *)
(* run_fold processes the data points of a task with it, each by a call    *)
(* of generate_response_with_retry.  The data points of a task are dicts   *)
(* (ComparisonTask) or lists (the other tasks).  max_retries and           *)
(* retry_delay have the values of BaseTask.__init__; the limit             *)
(* max_consecutive_failures, 10 there, and the number of data points are   *)
(* bounds of the model.                                                    *)
(***************************************************************************)
max_retries == 3

retry_delay == 1

max_consecutive_failures == 2

NumSamples == 3

DictDataPoints == {1, 2}

InitEvaluation ==
  /\ response = <<>>
  /\ writes = 0
  /\ pc = "write"
  /\ fn = "none"
  /\ prompt = <<>>
  /\ result = NoResult
  /\ backend = "None"
  /\ tried = <<>>
  /\ kind \in {"dict", "list"}
  /\ data = [n \in 1..NumSamples |-> 1]
  /\ sample = 0
  /\ at = "construct"
  /\ fold_prompt = NoPrompt
  /\ retry_prompt = NoPrompt
  /\ attempt = 0
  /\ retry_count = 0
  /\ last_error = "None"
  /\ calls = 0
  /\ sleeps = <<>>
  /\ returned = NotReturned
  /\ consecutive_failures = 0
  /\ fold_results = <<>>
  /\ metrics = NoMetrics
  /\ min_val = 0
  /\ max_val = 0
  /\ numerator = 0
  /\ denominator = 0

\* the backend a load would set without regard to its result
BackendOf(loader, loaded, current) == loader

\* self.backend after a load: set when the load returned True
BackendAfter(loader, loaded, current) == IF loaded THEN loader ELSE current

\* _load_model_with_fallback, first attempt: _try_load_vllm() returns True or,
\* on any exception of the load, False
TryLoadVllm ==
  /\ at = "construct"
  /\ tried = <<>>
  /\ \E loaded \in BOOLEAN :
       /\ tried' = <<[loader |-> "vllm", loaded |-> loaded]>>
       /\ backend' = BackendAfter("vllm", loaded, backend)
       /\ at' = IF loaded THEN "for" ELSE "construct"
  /\ UNCHANGED <<kind, data, sample, fold_prompt, retry_prompt, attempt, retry_count,
                 last_error, calls, sleeps, returned, consecutive_failures,
                 fold_results, metrics, min_val, max_val, numerator, denominator>>
  /\ UNCHANGED parsing

\* _load_model_with_fallback after _try_load_vllm() returned False:
\* _try_load_transformers(), and RuntimeError when it returns False too
TryLoadTransformers ==
  /\ at = "construct"
  /\ Len(tried) = 1
  /\ \E loaded \in BOOLEAN :
       /\ tried' = Append(tried, [loader |-> "transformers", loaded |-> loaded])
       /\ backend' = BackendAfter("transformers", loaded, backend)
       /\ at' = IF loaded THEN "for" ELSE "RuntimeError"
  /\ UNCHANGED <<kind, data, sample, fold_prompt, retry_prompt, attempt, retry_count,
                 last_error, calls, sleeps, returned, consecutive_failures,
                 fold_results, metrics, min_val, max_val, numerator, denominator>>
  /\ UNCHANGED parsing

\* data_point.get("answer", "unknown"): AttributeError when the data point is
\* a list
HasGet == kind = "dict"

\* an entry of fold_results
Entry(recorded, model_response, generation_success, parsing_success, metadata, ground_truth) ==
  [prompt |-> recorded, model_response |-> model_response,
   generation_success |-> generation_success, parsing_success |-> parsing_success,
   generation_metadata |-> metadata, ground_truth |-> ground_truth]

\* the entry of the handler of an unexpected exception
ErrorPrompt == [text |-> "Error occurred before prompt creation", of |-> 0]

\* the iteration of run_fold from the return of generate_response_with_retry
\* with success: the counter is reset, the response is evaluated with the data
\* point, and the entry is appended.  When evaluate_response raises, the entry
\* takes its ground truth from data_point.get, which raises for a list; the
\* handler of the unexpected exception calls data_point.get again, and
\* run_fold raises
Evaluated(model_response, metadata, evaluates) ==
  /\ consecutive_failures' = 0
  /\ IF evaluates \/ HasGet
     THEN /\ fold_results' =
               Append(fold_results,
                      Entry(fold_prompt, model_response, TRUE, evaluates, metadata, data[sample]))
          /\ at' = "for"
     ELSE /\ fold_results' = fold_results
          /\ at' = "raised"

\* the iteration of run_fold from the return of generate_response_with_retry
\* without success: the counter is incremented; at max_consecutive_failures
\* the loop is left before fold_results.append
Failed(metadata, data_point) ==
  IF HasGet
  THEN /\ consecutive_failures' = consecutive_failures + 1
       /\ IF consecutive_failures + 1 >= max_consecutive_failures
          THEN fold_results' = fold_results /\ at' = "break"
          ELSE /\ fold_results' =
                    Append(fold_results,
                           Entry(fold_prompt, EmptyResponse, FALSE, FALSE, metadata, data_point))
               /\ at' = "for"
  ELSE /\ consecutive_failures' = consecutive_failures + 1
       /\ fold_results' = fold_results
       /\ at' = "raised"

\* run_fold takes the next data point: create_prompt, then the call of
\* generate_response_with_retry begins
CreatePrompt ==
  /\ at = "for"
  /\ sample < Len(data)
  /\ sample' = sample + 1
  /\ fold_prompt' = PromptFor(data[sample + 1])
  /\ retry_prompt' = PromptFor(data[sample + 1])
  /\ attempt' = 0
  /\ retry_count' = 0
  /\ last_error' = "None"
  /\ calls' = 0
  /\ sleeps' = <<>>
  /\ returned' = NotReturned
  /\ at' = "attempt"
  /\ UNCHANGED <<backend, tried, kind, data, consecutive_failures, fold_results, metrics,
                 min_val, max_val, numerator, denominator>>
  /\ UNCHANGED parsing

\* run_fold takes the next data point and create_prompt raises: the handler of
\* the unexpected exception appends an entry, with data_point.get, and counts
\* a failure; at max_consecutive_failures the loop is left after the append
PromptRaises ==
  /\ at = "for"
  /\ sample < Len(data)
  /\ sample' = sample + 1
  /\ IF HasGet
     THEN /\ fold_results' =
               Append(fold_results,
                      Entry(ErrorPrompt, EmptyResponse, FALSE, FALSE, NotReturned.metadata,
                            data[sample + 1]))
          /\ consecutive_failures' = consecutive_failures + 1
          /\ at' = IF consecutive_failures + 1 >= max_consecutive_failures
                   THEN "break" ELSE "for"
     ELSE /\ at' = "raised"
          /\ UNCHANGED <<fold_results, consecutive_failures>>
  /\ UNCHANGED <<backend, tried, kind, data, fold_prompt, retry_prompt, attempt,
                 retry_count, last_error, calls, sleeps, returned, metrics,
                 min_val, max_val, numerator, denominator>>
  /\ UNCHANGED parsing

\* an attempt of generate_response_with_retry in which the backend answers: it
\* returns (response, tokens, True, metadata), and run_fold finishes the
\* iteration
AttemptSucceeds ==
  /\ at = "attempt"
  /\ backend \in {"vllm", "transformers"}
  /\ calls' = calls + 1
  /\ \E evaluates \in BOOLEAN :
       LET metadata == [attempt |-> attempt + 1, backend |-> backend,
                        retry_count |-> retry_count, final_error |-> "None"]
       IN /\ returned' = [response |-> ResponseTo(retry_prompt), tokens |-> 1,
                          success |-> TRUE, metadata |-> metadata, status |-> "returned"]
          /\ Evaluated(ResponseTo(retry_prompt), metadata, evaluates)
  /\ UNCHANGED <<backend, tried, kind, data, sample, fold_prompt, retry_prompt, attempt,
                 retry_count, last_error, sleeps, metrics,
                 min_val, max_val, numerator, denominator>>
  /\ UNCHANGED parsing

\* a wait that grows by retry_delay with each attempt
LinearWait(failed) == retry_delay * (failed + 1)

\* wait_time = self.retry_delay * (2 ** attempt)
wait_time(failed) == retry_delay * 2^failed

\* regenerate_data_point(data_point): generate_data()[0], or the data point
\* itself when generate_data raises or returns no list of data points
Regenerated(data_point) == DictDataPoints \cup {data_point}

\* an attempt of generate_response_with_retry in which the backend raises an
\* Exception with the message error.  Before the last attempt it sleeps, and
\* on a message with "cuda" or "out of memory" it regenerates the data point:
\* a dict is updated in place and the local prompt is created anew, a list has
\* no update (AttributeError, logged).  After the last attempt it returns
\* ("", 0, False, metadata), and run_fold finishes the iteration
AttemptFails ==
  /\ at = "attempt"
  /\ backend \in {"vllm", "transformers"}
  /\ calls' = calls + 1
  /\ retry_count' = retry_count + 1
  /\ \E error \in {"backend error", "CUDA out of memory"} :
       /\ last_error' = error
       /\ IF attempt < max_retries
          THEN /\ sleeps' = Append(sleeps, wait_time(attempt))
               /\ attempt' = attempt + 1
               /\ \E new_data_point \in Regenerated(data[sample]) :
                    IF error = "CUDA out of memory" /\ new_data_point # data[sample] /\ kind = "dict"
                    THEN /\ data' = [data EXCEPT ![sample] = new_data_point]
                         /\ retry_prompt' = PromptFor(new_data_point)
                    ELSE UNCHANGED <<data, retry_prompt>>
               /\ UNCHANGED <<returned, consecutive_failures, fold_results, at>>
          ELSE LET metadata == [attempt |-> max_retries + 1, backend |-> backend,
                                retry_count |-> retry_count + 1, final_error |-> error]
               IN /\ returned' = [response |-> EmptyResponse, tokens |-> 0, success |-> FALSE,
                                  metadata |-> metadata, status |-> "returned"]
                  /\ Failed(metadata, data[sample])
                  /\ UNCHANGED <<sleeps, attempt, data, retry_prompt>>
  /\ UNCHANGED <<backend, tried, kind, sample, fold_prompt, metrics,
                 min_val, max_val, numerator, denominator>>
  /\ UNCHANGED parsing

\* KeyboardInterrupt during an attempt: no Exception, so that
\* generate_response_with_retry raises it, and run_fold leaves the loop
Interrupt ==
  /\ at = "attempt"
  /\ backend \in {"vllm", "transformers"}
  /\ calls' = calls + 1
  /\ returned' = [NotReturned EXCEPT !.status = "raised"]
  /\ at' = "break"
  /\ UNCHANGED <<backend, tried, kind, data, sample, fold_prompt, retry_prompt, attempt,
                 retry_count, last_error, sleeps, consecutive_failures, fold_results,
                 metrics, min_val, max_val, numerator, denominator>>
  /\ UNCHANGED parsing

\* run_fold after the loop: the metrics of the fold
Summarise ==
  /\ at = "break" \/ (at = "for" /\ sample = Len(data))
  /\ metrics' = [total_samples_attempted |-> Len(data),
                 total_samples_completed |-> Len(fold_results)]
  /\ at' = "returned"
  /\ UNCHANGED <<backend, tried, kind, data, sample, fold_prompt, retry_prompt, attempt,
                 retry_count, last_error, calls, sleeps, returned, consecutive_failures,
                 fold_results, min_val, max_val, numerator, denominator>>
  /\ UNCHANGED parsing

NextEvaluation ==
  \/ TryLoadVllm
  \/ TryLoadTransformers
  \/ CreatePrompt
  \/ PromptRaises
  \/ AttemptSucceeds
  \/ AttemptFails
  \/ Interrupt
  \/ Summarise

SpecEvaluation == InitEvaluation /\ [][NextEvaluation]_vars

(***************************************************************************)
(* DivisionTask.generate_data as a state machine: for each of num_samples  *)
(* pairs a numerator and a denominator are drawn from min_val..max_val,    *)
(* and the denominator is drawn again while it is 0.                       *)
(***************************************************************************)
Range == -1..1

InitDivision ==
  /\ response = <<>>
  /\ writes = 0
  /\ pc = "write"
  /\ fn = "none"
  /\ prompt = <<>>
  /\ result = NoResult
  /\ backend = "None"
  /\ tried = <<>>
  /\ kind = "list"
  /\ data = <<>>
  /\ sample = 0
  /\ at = "range"
  /\ fold_prompt = NoPrompt
  /\ retry_prompt = NoPrompt
  /\ attempt = 0
  /\ retry_count = 0
  /\ last_error = "None"
  /\ calls = 0
  /\ sleeps = <<>>
  /\ returned = NotReturned
  /\ consecutive_failures = 0
  /\ fold_results = <<>>
  /\ metrics = NoMetrics
  /\ min_val \in Range
  /\ max_val \in Range
  /\ min_val <= max_val
  /\ numerator = 0
  /\ denominator = 0

\* random.randint(self.min_val, self.max_val)
randint(a, b) == a..b

\* the body of the for loop up to the while: numerator and denominator
DrawPair ==
  /\ at = "range"
  /\ Len(data) < NumSamples
  /\ numerator' \in randint(min_val, max_val)
  /\ denominator' \in randint(min_val, max_val)
  /\ at' = "while"
  /\ UNCHANGED <<backend, tried, kind, data, sample, fold_prompt, retry_prompt, attempt,
                 retry_count, last_error, calls, sleeps, returned, consecutive_failures,
                 fold_results, metrics, min_val, max_val>>
  /\ UNCHANGED parsing

\* while denominator == 0: denominator = random.randint(...)
DrawAgain ==
  /\ at = "while"
  /\ denominator = 0
  /\ denominator' \in randint(min_val, max_val)
  /\ UNCHANGED <<backend, tried, kind, data, sample, at, fold_prompt, retry_prompt, attempt,
                 retry_count, last_error, calls, sleeps, returned, consecutive_failures,
                 fold_results, metrics, min_val, max_val, numerator>>
  /\ UNCHANGED parsing

\* data.append([numerator, denominator])
AppendPair ==
  /\ at = "while"
  /\ denominator # 0
  /\ data' = Append(data, <<numerator, denominator>>)
  /\ at' = "range"
  /\ UNCHANGED <<backend, tried, kind, sample, fold_prompt, retry_prompt, attempt,
                 retry_count, last_error, calls, sleeps, returned, consecutive_failures,
                 fold_results, metrics, min_val, max_val, numerator, denominator>>
  /\ UNCHANGED parsing

\* return data
ReturnData ==
  /\ at = "range"
  /\ Len(data) = NumSamples
  /\ at' = "returned"
  /\ UNCHANGED <<backend, tried, kind, data, sample, fold_prompt, retry_prompt, attempt,
                 retry_count, last_error, calls, sleeps, returned, consecutive_failures,
                 fold_results, metrics, min_val, max_val, numerator, denominator>>
  /\ UNCHANGED parsing

NextDivision == DrawPair \/ DrawAgain \/ AppendPair \/ ReturnData

\* the loop keeps running, and a draw that can give another value than the
\* last one gives it at some time
SpecDivision == InitDivision /\ [][NextDivision]_vars /\ WF_vars(NextDivision)

(***************************************************************************)
(* Properties                                                              *)
(***************************************************************************)
Called(f) == pc = "done" /\ fn = f

\* the operands the call read from its prompt
Operands == InputNumbers(prompt)

CalledScalar ==
  Called("parse_absolute_difference_answer") \/ Called("parse_multiplication_answer")

\* the content of the response's first box
TheBox == BoxedFrom(response, 1)[1]

\* the response holds one box, with a numeric literal v1 in it, and a
\* statement "the answer is v2" with a number v2 that differs from v1
BoxedAndProse ==
  /\ Len(BoxedFrom(response, 1)) = 1
  /\ IsLiteral(TheBox)
  /\ \E i \in 1..Len(response) :
       /\ response[i] = tANS
       /\ SciEnd(response, i + 1) # 0
       /\ ~NumEq(PyNumber(Slice(response, i + 1, SciEnd(response, i + 1) - 1)),
                 PyNumber(TheBox))

BoxedValueReturned ==
  /\ result.status = "returned"
  /\ result.flag
  /\ IsNum(result.value)
  /\ NumEq(result.value, PyNumber(TheBox))

AcceptedStrategies ==
  IF fn = "parse_absolute_difference_answer"
  THEN {n \in 1..10 : Accepted(AbsDiffCandidate(n, response, Operands), Operands) = "yes"}
  ELSE {n \in 1..10 : Accepted(MulCandidate(n, response, Operands), Operands) = "yes"}

CandidateOf(n) ==
  IF fn = "parse_absolute_difference_answer"
  THEN AbsDiffCandidate(n, response, Operands)
  ELSE MulCandidate(n, response, Operands)

\* C2: the scalar cascade returns the candidate of the first strategy, in the
\* order boxed, markdown, explicit, LaTeX, code, last line, scientific, array,
\* calculation, bare number, whose candidate is a valid number and no echo;
\* the bare number only for a response shorter than 10 characters; and None
\* when no strategy has such a candidate
C2_CascadeOrder ==
  (CalledScalar /\ result.status = "returned") =>
    IF AcceptedStrategies = {}
    THEN result.by = 0 /\ result.value = NoneV
    ELSE /\ result.by \in AcceptedStrategies
         /\ \A n \in AcceptedStrategies : result.by <= n
         /\ result.value = Answer(CandidateOf(result.by))
         /\ (result.by = 10 => TextLen(Strip(response)) < ShortLen)

\* C2 witness: the box held a candidate that was rejected and the value of
\* the last line, a strategy of lower priority, was returned
C2_Witness ==
  /\ CalledScalar /\ result.status = "returned"
  /\ CandidateOf(1).k = "text"
  /\ 1 \notin AcceptedStrategies
  /\ result.by = 6

\* C3: the mean task reports instruction_followed = true only for an answer
\* taken from a boxed form
C3_AsClaimed ==
  (Called("MeanTask.evaluate_response") /\ result.flag) => result.by = 1

BoxRecognised == extract_from_boxed_formats(response)[2]

C5_AsClaimed ==
  (Called("parse_sum_answer") \/ Called("parse_odd_count_answer")) =>
    ~(result.value = NoneV /\ result.flag)

ParseEntryPoints ==
  {"parse_absolute_difference_answer", "parse_multiplication_answer",
   "parse_subtraction_answer", "parse_sum_answer", "parse_odd_count_answer"}

CalledParser == pc = "done" /\ fn \in ParseEntryPoints

\* C6: a call of a scalar parser returns a result, it does not raise
C6_AsClaimed == CalledParser => result.status = "returned"

\* C7: parse_sum_answer returns the number of the explicit statement when the
\* box holds no number, and parse_comparison_result the category of the
\* explicit statement when the boxed text normalises to none
C7_AsClaimed ==
  /\ (/\ Called("parse_sum_answer")
      /\ SumCandidate(1, response).k = "text"
      /\ ~IsNum(sum_clean_and_convert_to_number(SumCandidate(1, response).s))
      /\ SumCandidate(2, response).k = "text"
      /\ IsNum(sum_clean_and_convert_to_number(SumCandidate(2, response).s)))
     => result.value = sum_clean_and_convert_to_number(SumCandidate(2, response).s)
  /\ (/\ Called("parse_comparison_result")
      /\ extract_from_boxed_format(Strip(response)) # <<>>
      /\ normalize_comparison_result(extract_from_boxed_format(Strip(response))) = NoneV
      /\ extract_from_explicit_statement(Strip(response)) # <<>>)
     => result.value =
          normalize_comparison_result(extract_from_explicit_statement(Strip(response)))

\* C8: the value a scalar parser returns is None, an int or a float, never a str
C8_AsClaimed ==
  (CalledParser /\ result.status = "returned") => result.value.k # "str"

\* v is an operand, the negation of an operand, or the sum of the operands
IsEcho(v, input_numbers) ==
  \/ \E i \in 1..Len(input_numbers) : NumEq(v, IntV(input_numbers[i]))
  \/ \E i \in 1..Len(input_numbers) : NumEq(Neg(v), IntV(input_numbers[i]))
  \/ Len(input_numbers) > 1 /\ NumEq(v, IntV(SumSeq(input_numbers)))

\* C9: called with a prompt that lists the operands, a scalar parser never
\* returns an operand, the negation of an operand or the sum of the operands
C9_AsClaimed ==
  (CalledParser /\ result.status = "returned" /\ Operands # <<>> /\ IsNum(result.value))
    => ~IsEcho(result.value, Operands)

\* C10: is_input_number returns, and returns true exactly for a candidate whose
\* number is an operand, the negation of an operand or the sum of two or more
\* operands
C10_AsClaimed ==
  Called("is_input_number") =>
    /\ result.status = "returned"
    /\ result.flag <=>
         LET v == IF result.value.k = "str" /\ FloatParses(result.value.s)
                  THEN PyFloat(result.value.s) ELSE result.value
         IN IsNum(v) /\ IsEcho(v, Operands)

TaskEntryPoints ==
  {"AbsoluteDifferenceTask.evaluate_response", "SubtractionTask.evaluate_response",
   "MultiplicationTask.evaluate_response"}

\* C11: the absolute difference, subtraction and multiplication tasks grade
\* with the echo filter in effect: the parsed answer of a graded response is
\* never an operand of the data point, the negation of one or their sum
C11_AsClaimed ==
  (pc = "done" /\ fn \in TaskEntryPoints /\ result.status = "returned"
     /\ IsNum(result.value))
    => ~IsEcho(result.value, result.numbers)

\* C12: when a response labels Number 1 as a and Number 2 as b and then states
\* the relation of b to a in symbols, parse_comparison_result returns the
\* relation of a to b: the stated relation inverted
C12_AsClaimed ==
  \A a, b \in ComparedNumbers :
    (Called("parse_comparison_result") /\ a # b
       /\ response \in {Labels(a, b) \o <<b, tLT, a>>, Labels(a, b) \o <<b, tGT, a>>})
      => result.value = StrV(<<IF response[8] = tLT THEN tGREATER ELSE tLESS>>)

CoercionOf(adapters) ==
  pc = "done" /\ fn \in {a \o ".clean_and_convert_to_number" : a \in adapters}

\* 'a × 10^b', 'a x 10^b', 'a times 10^b' and 'a \times 10^{b}' (blanks left out)
ScientificForms(a, b) ==
  {<<a, sign, "1", "0", tHAT, b>> : sign \in {tMUL, tX, tTIMESW}}
    \cup {<<a, tLTIMES, "1", "0", tHAT, tLB, b, tRB>>}

\* C13: a fragment 'a × 10^b', 'a x 10^b', 'a times 10^b' or 'a \times 10^{b}'
\* coerces to the value a * 10^b, never to the leading literal a
C13_AsClaimed ==
  \A a, b \in Digits :
    (CoercionOf({"absolute_difference_parsing", "multiplication_parsing"})
       /\ response \in ScientificForms(a, b))
      => NumEq(result.value, IntV(DigitVal(a) * Pow10(DigitVal(b))))

\* the index of the last "=" of a fragment that ends in '= Z', Z a literal; 0
\* if the fragment does not end so
EndsInEquality(x) ==
  IF \E k \in 1..Len(x) - 1 : x[k] = tEQ /\ IsLiteral(Slice(x, k + 1, Len(x)))
  THEN CHOOSE k \in 1..Len(x) - 1 : x[k] = tEQ /\ IsLiteral(Slice(x, k + 1, Len(x)))
  ELSE 0

\* C14: a fragment that ends in '= Z' coerces to Z, the result after its last
\* '=', also when it chains several equalities
C14_AsClaimed ==
  (CoercionOf({"absolute_difference_parsing", "multiplication_parsing",
               "subtraction_parsing"})
     /\ EndsInEquality(response) # 0)
    => result.value = PyNumber(Slice(response, EndsInEquality(response) + 1, Len(response)))

\* C15: the commas of a list of numbers ('4,5', '1,2,3') stay in place: the
\* coercion does not fuse two items of the list into one number
C15_AsClaimed ==
  \A a, b, c \in Digits :
    (CoercionOf({"absolute_difference_parsing"})
       /\ response \in {<<a, tCM, b>>, <<a, tCM, b, tCM, c>>})
      => ~NumEq(result.value, IntV(DigitsValue(<<a, b>>, 0)))

\* C16: in every scalar adapter a numeric literal coerces to the value of the
\* full literal, an int when it has neither '.' nor exponent and a float
\* otherwise
C16_AsClaimed ==
  (CoercionOf({"absolute_difference_parsing", "multiplication_parsing",
               "subtraction_parsing", "sum_parsing", "find_maximum_parsing"})
     /\ IsLiteral(response))
    => result.value = PyNumber(response)

\* the ints of the parsed answer, when it is a list of ints
ParsedInts == [i \in 1..Len(result.value.s) |-> result.value.s[i].m]

IsIntList(v) ==
  v.k = "list" /\ \A i \in 1..Len(v.s) : v.s[i].k = "int" /\ v.s[i].s = <<>>

\* the lists a and b hold the same values, each as many times
SameValues(a, b) ==
  /\ Len(a) = Len(b)
  /\ \A i \in 1..Len(a) :
       Cardinality({j \in 1..Len(a) : a[j] = a[i]})
         = Cardinality({j \in 1..Len(b) : b[j] = a[i]})

\* C17: SortingTask.evaluate_response gives accuracy 1 exactly when the parsed
\* answer is a list that holds the values of the input list, each as many
\* times, in whatever order
C17_SortedMultiset ==
  Called("SortingTask.evaluate_response")
    => (result.accuracy = 1
          <=> (IsIntList(result.value) /\ SameValues(ParsedInts, result.numbers)))

\* the unsorted input list itself is the answer and earns credit
C17_Witness ==
  /\ Called("SortingTask.evaluate_response")
  /\ result.accuracy = 1
  /\ ParsedInts = result.numbers
  /\ result.numbers # result.ground_truth

\* the literals of the ints an answer holds
IntLiterals == {IntText(n) : n \in {-3, 2, 3, 5}} \cup {LongLiteral}

RECURSIVE ListText(_)
\* str(L) without its brackets, L a list of literals
ListText(L) == IF Len(L) = 1 THEN L[1] ELSE L[1] \o <<tCOMMA>> \o ListText(Tail(L))

BoxedList(L) == <<tBOX, tLSQ>> \o ListText(L) \o <<tRSQ, tRB>>

WrittenLists == UNION {[1..n -> IntLiterals] : n \in 1..3}

AnswerIs(L) ==
  /\ Called("parse_sorted_list")
  /\ Len(BoxedList(L)) <= Len(response)
  /\ Slice(response, Len(response) - Len(BoxedList(L)) + 1, Len(response)) = BoxedList(L)

\* the int that the literal x writes
IntOf(x) ==
  LET Of(sign, d) ==
        IF Len(d) <= ExactDigits THEN IntV(sign * DigitsValue(d, 0)) ELSE BigV(sign, d)
  IN IF x[1] = tNEG THEN Of(-1, Tail(x)) ELSE Of(1, x)

\* C18: when the response ends with the answer '\boxed{[...]}' that holds the
\* elements of a non-empty list L of ints, parse_sorted_list returns L, the
\* elements in the order they are written
C18_AsClaimed ==
  \A L \in WrittenLists :
    AnswerIs(L) => result.value = ListV([i \in 1..Len(L) |-> IntOf(L[i])])

\* C18, of the lists of ints of at most ExactDigits digits: such an answer is
\* returned as it is written
C18_ShortInts ==
  \A L \in WrittenLists :
    (AnswerIs(L) /\ \A i \in 1..Len(L) : Len(L[i]) <= ExactDigits)
      => result.value = ListV([i \in 1..Len(L) |-> IntOf(L[i])])

\* what joins the ints of a fragment: ",", ", ", " and ", " or ", ", and ", ", or "
Joiners ==
  ModeJoiners \cup {<<tCM>>, <<tCM, tSP, tANDW, tSP>>, <<tCM, tSP, tORW, tSP>>}

RECURSIVE JoinedInts(_, _, _)
\* the ints of the text from index i on, after the ints acc, when the text is
\* ints with one joiner between every two: <<TRUE, the ints>>, else <<FALSE, <<>>>>
JoinedInts(s, i, acc) ==
  LET Joins(j, e, ints) ==
        /\ e + Len(j) - 1 <= Len(s)
        /\ Slice(s, e, e + Len(j) - 1) = j
        /\ JoinedInts(s, e + Len(j), ints)[1]
      Joined(e, ints) ==
        IF e > Len(s) THEN <<TRUE, ints>>
        ELSE IF \E j \in Joiners : Joins(j, e, ints)
             THEN JoinedInts(s, e + Len(CHOOSE j \in Joiners : Joins(j, e, ints)), ints)
        ELSE <<FALSE, <<>>>>
      Literal(e) ==
        IF e = 0 THEN <<FALSE, <<>>>>
        ELSE Joined(e, Append(acc, IF s[i] = tNEG THEN -DigitsValue(Slice(s, i, e - 1), 0)
                                   ELSE DigitsValue(Slice(s, i, e - 1), 0)))
  IN Literal(IntEnd(s, i))

\* the fragment a call has read: the text handed to parse_modes_from_text, or
\* what stands in the box of a response that is one box
Fragment ==
  IF Called("parse_modes_from_text") THEN response
  ELSE IF /\ Called("mode_parsing.extract_from_boxed_formats")
          /\ Len(response) >= 3 /\ response[1] = tBOX /\ Last(response) = tRB
       THEN Slice(response, 2, Len(response) - 1)
  ELSE <<>>

FragmentInts == JoinedInts(Fragment, 1, <<>>)

\* C19: of a fragment of ints joined by commas, "and" and "or",
\* parse_modes_from_text (and with it extract_from_boxed_formats of a box that
\* holds the fragment) returns every int of the fragment exactly once, nothing
\* else, and in the order in which the ints first stand in the fragment
C19_DedupFirstSeen ==
  FragmentInts[1] =>
    LET ints == FragmentInts[2]
        modes == result.value.s
        First(n) == CHOOSE i \in 1..Len(ints) : ints[i] = n /\ \A j \in 1..(i - 1) : ints[j] # n
    IN /\ result.value.k = "list"
       /\ \A i \in 1..Len(ints) :
            Cardinality({j \in 1..Len(modes) : modes[j] = IntV(ints[i])}) = 1
       /\ \A j \in 1..Len(modes) : \E i \in 1..Len(ints) : modes[j] = IntV(ints[i])
       /\ \A j, k \in 1..Len(modes) : j < k => First(modes[j].m) < First(modes[k].m)

\* a box holds a fragment in which an int stands twice, the larger int first
C19_Witness ==
  /\ Called("mode_parsing.extract_from_boxed_formats")
  /\ FragmentInts[1]
  /\ \E i, j \in 1..Len(FragmentInts[2]) : i < j /\ FragmentInts[2][i] = FragmentInts[2][j]
  /\ Len(result.value.s) >= 2
  /\ result.value.s[1].m > result.value.s[2].m

BoxEntryPoints ==
  {"absolute_difference_parsing.extract_from_boxed_formats",
   "multiplication_parsing.extract_from_boxed_formats",
   "subtraction_parsing.extract_from_boxed_formats"}

\* C21: of a response that holds several boxed answers,
\* extract_from_boxed_formats returns the content of the box that stands last
C21_AsClaimed ==
  (pc = "done" /\ fn \in BoxEntryPoints /\ Len(BoxedFrom(response, 1)) >= 2)
    => result.value = StrV(Strip(Last(BoxedFrom(response, 1))))

\* the response states the relation rel of the number a to the number b: a,
\* then one term of rel, then b, and no other number and no other term
StatedAbout(a, rel, b) ==
  \E i, j, k \in 1..Len(response) :
    /\ i < j /\ j < k
    /\ response[i] = a /\ response[j] \in rel /\ response[k] = b
    /\ \A n \in 1..Len(response) :
         /\ response[n] \in {tNUMBER1, tNUMBER2} => n \in {i, k}
         /\ response[n] \in {tGREATER, tLESS, tEQUAL, tEXCEEDS, tBELOW, tGT, tLT, tEQ} => n = j

\* C22: normalize_comparison_result inverts a relation stated about Number 2
\* relative to Number 1 and keeps a relation stated about Number 1 relative
\* to Number 2
C22_AsClaimed ==
  Called("normalize_comparison_result") =>
    /\ StatedAbout(tNUMBER2, {tLESS}, tNUMBER1) => result.value = StrV(<<tGREATER>>)
    /\ StatedAbout(tNUMBER2, {tGREATER}, tNUMBER1) => result.value = StrV(<<tLESS>>)
    /\ StatedAbout(tNUMBER1, {tLESS}, tNUMBER2) => result.value = StrV(<<tLESS>>)
    /\ StatedAbout(tNUMBER1, {tGREATER}, tNUMBER2) => result.value = StrV(<<tGREATER>>)

\* the current call of generate_response_with_retry has returned
HasReturned == returned.status = "returned"

\* C23: generate_response_with_retry calls the backend at most max_retries + 1
\* times; it returns at the first attempt that succeeds, with retry_count the
\* number of attempts that failed before; after max_retries + 1 failed attempts
\* it returns ("", 0, False, metadata with final_error); it sleeps
\* retry_delay * 2^attempt after each failed attempt but the last
C23_BoundedRetry ==
  /\ calls <= max_retries + 1
  /\ \A k \in 1..Len(sleeps) : sleeps[k] = retry_delay * 2^(k - 1)
  /\ at = "attempt" => Len(sleeps) = calls
  /\ HasReturned =>
       /\ at # "attempt"
       /\ Len(sleeps) = calls - 1
       /\ IF returned.success
          THEN /\ returned.metadata.retry_count = calls - 1
               /\ returned.metadata.attempt = calls
               /\ returned.metadata.final_error = "None"
          ELSE /\ calls = max_retries + 1
               /\ returned.response = EmptyResponse
               /\ returned.tokens = 0
               /\ returned.metadata.retry_count = max_retries + 1
               /\ returned.metadata.final_error # "None"

C23_Witness ==
  HasReturned /\ ~returned.success /\ calls = max_retries + 1 /\ Len(sleeps) = max_retries

C23_SuccessAfterRetries ==
  HasReturned /\ returned.success /\ returned.metadata.retry_count = 2

\* the fold was not interrupted from the keyboard
NotInterrupted == returned.status # "raised"

\* C24: run_fold takes no data point once max_consecutive_failures samples in
\* a row have failed, and in a fold in which they never do it processes every
\* data point
C24_AsClaimed ==
  /\ at = "for" => consecutive_failures < max_consecutive_failures
  /\ (at \in {"returned", "raised"} /\ NotInterrupted
        /\ consecutive_failures < max_consecutive_failures)
       => sample = Len(data)

\* C25: the Transformers load is tried only after the vLLM load failed; backend
\* is "vllm" or "transformers" according to the load that succeeded; when both
\* fail construction raises RuntimeError with backend None; the backend is
\* called only with a backend set
C25_Fallback ==
  /\ Len(tried) <= 2
  /\ Len(tried) >= 1 => tried[1].loader = "vllm"
  /\ Len(tried) = 2 => ~tried[1].loaded /\ tried[2].loader = "transformers"
  /\ backend = "vllm" <=> (Len(tried) = 1 /\ tried[1].loaded)
  /\ backend = "transformers" <=> (Len(tried) = 2 /\ tried[2].loaded)
  /\ at = "RuntimeError" <=> (Len(tried) = 2 /\ ~tried[2].loaded)
  /\ at = "RuntimeError" => backend = "None"
  /\ (calls > 0 \/ at \in {"for", "attempt", "break", "returned", "raised"})
       => backend \in {"vllm", "transformers"}

C25_Witness == at = "RuntimeError" /\ Len(tried) = 2

C25_FallbackUsed == backend = "transformers" /\ calls > 0

\* C27: every data point that run_fold has taken has one entry in
\* fold_results, and total_samples_completed is their number
C27_AsClaimed ==
  (at \in {"for", "break", "returned"} /\ NotInterrupted)
    => /\ Len(fold_results) = sample
       /\ at = "returned" => metrics.total_samples_completed = sample

\* C28: in every entry of fold_results with a response, the response is the
\* response to the recorded prompt, and the recorded prompt is the prompt of
\* the data point the response was graded with; the data point changes only
\* on a CUDA or out-of-memory error
C28_AsClaimed ==
  /\ [](\A n \in 1..Len(fold_results) :
          fold_results[n].generation_success =>
            /\ fold_results[n].model_response = ResponseTo(fold_results[n].prompt)
            /\ fold_results[n].prompt = PromptFor(fold_results[n].ground_truth))
  /\ [][data' # data => last_error' = "CUDA out of memory"]_vars

\* C26: DivisionTask.generate_data returns, for every range min_val..max_val,
\* and what it returns is num_samples pairs with a denominator other than 0
C26_AsClaimed ==
  <>(/\ at = "returned"
     /\ Len(data) = NumSamples
     /\ \A n \in 1..Len(data) : Len(data[n]) = 2 /\ data[n][2] # 0)

\* the content of the box that parse_subtraction_answer selects is a number
\* written without a minus sign
UnsignedBox ==
  LET Unsigned(c) ==
        /\ c.k = "text"
        /\ \A n \in 1..Len(c.s) : c.s[n] # tNEG
        /\ IsNum(SubAnswer(c))
  IN Unsigned(sub_extract_from_boxed_formats(response)[1])

\* C29: when parse_subtraction_answer returns the number of the selected box
\* and the content of that box has no minus sign, the value returned is that
\* number, not negated
C29_AsClaimed ==
  (Called("parse_subtraction_answer") /\ result.status = "returned" /\ result.by = 1
     /\ UnsignedBox)
    => result.value = SubAnswer(sub_extract_from_boxed_formats(response)[1])

\* C30: MultiplicationTask.evaluate_response gives accuracy 1 only when the
\* value that parse_multiplication_answer extracts from the response is
\* numerically equal to the product of the data point
C30_AsClaimed ==
  LET Equal(extracted) == IsNum(extracted) /\ NumEq(extracted, IntV(result.ground_truth))
  IN (Called("MultiplicationTask.evaluate_response") /\ result.status = "returned"
        /\ result.accuracy = 1)
       => Equal(parse_multiplication_answer(response, <<>>).value)

====
